---------------------------- MODULE Spec2Model ----------------------------
(***************************************************************************)
(* A model of the route screen of RouteOptimizer (the Index component):    *)
(* the stop list, the optimized-route artifact, optimizeRoute with its     *)
(* in-flight request, and the helpers reorderStopsByWaypointIndex and      *)
(* stopTitleFromSearchResult.                                              *)
(*                                                                         *)
(* React state is modelled by one variable per useState cell.  A handler   *)
(* (a press, the continuation of an await) runs to completion and its      *)
(* batched state updates are committed before the next handler runs, so a  *)
(* handler reads the state of the latest render; what an async function    *)
(* captured before an await (currentStops, waypointOffset) travels with    *)
(* the request in flight.                                                  *)
(*                                                                         *)
(* JavaScript null/undefined is the empty tuple, a present value v is the  *)
(* one-element tuple <<v>>.                                                *)
(***************************************************************************)
EXTENDS Integers, Sequences, FiniteSets, TLC

null == <<>>

Some(v) == <<v>>

IsNull(x) == x = null

Unwrap(x) == x[1]

Range(s) == {s[i] : i \in DOMAIN s}

(***************************************************************************)
(* Bounds of the model.                                                    *)
(***************************************************************************)
\* stops ever created in a behaviour of Spec (buildStopId is called at most
\* this many times)
MaxIds == 3

\* finite waypoint_index values of a response are 0..MaxWaypointIndex
MaxWaypointIndex == 2

\* SpecFlight: length of the stop lists that are optimized
MaxFlightStops == 3

\* SpecLimit: stops selected before the first optimization, and in all
MaxLimitStops == 13

\* SpecReorder: stops passed to reorderStopsByWaypointIndex
MaxReorderStops == 3

\* SpecIds: readings of Date.now() are 1..MaxClockReading
MaxClockReading == 2

\* SpecIds: the suffixes Math.random() yields are 1..MaxSuffix
MaxSuffix == 2

\* SpecCall: calls of optimizeRoute that may be awaiting their response
MaxCalls == 2

\* changes of the search query (SpecSearch)
MaxQueryChanges == 3

\* durations of a trip, in seconds (SpecFormat)
MaxDurationSeconds == 7400

\* distances of a trip, in metres (SpecFormat)
MaxDistanceMeters == 12400

(***************************************************************************)
(* Program constants.                                                      *)
(***************************************************************************)
\* const maxStops = includeCurrentLocationInRoute ? 11 : 12
MaxStopsWithCurrentLocation == 11

MaxStopsWithoutCurrentLocation == 12

(***************************************************************************)
(* Messages.  A message is a tuple of the text's parts.                    *)
(***************************************************************************)
MsgAtLeastTwoStops == <<"Add at least two stops before optimizing.">>

MsgLocationUnavailable == <<"Current location is unavailable right now.">>

NumberText(n) ==
    CASE n = 11 -> "11"
      [] n = 12 -> "12"
      [] n = 13 -> "13"
      [] OTHER -> "n"

MsgTooManyStops(maxStops) ==
    <<"Mapbox Optimization supports up to ", NumberText(maxStops),
      " stops with current settings.">>

MsgMissingKey == <<"Missing EXPO_PUBLIC_MAP_KEY. Restart Expo after updating .env.">>

MsgRequestFailed == <<"Optimization request failed.">>

MsgNoGeometry == <<"Optimization returned no route geometry.">>

MsgNotAnError == <<"Route optimization failed. Check token permissions and network.">>

StatusText(status) ==
    CASE status = 401 -> "401"
      [] status = 403 -> "403"
      [] status = 500 -> "500"
      [] OTHER -> "status"

\* buildMapboxError('Optimization', status, details); the detail text is
\* trimmed and an empty one leaves no trailing part
buildMapboxError(service, status, details) ==
    LET detailText == IF details = "" THEN <<>> ELSE <<details>>
    IN  CASE status = 403 ->
               <<service, " returned 403. Check token scopes/URL restrictions and account access.">>
                 \o detailText
          [] status = 401 ->
               <<service, " returned 401. Check that your Mapbox token is valid and has required permissions.">>
                 \o detailText
          [] OTHER ->
               <<service, " failed (", StatusText(status), ").">> \o detailText

(***************************************************************************)
(* Pure helpers of the component file.                                     *)
(***************************************************************************)
\* array[i] of JavaScript, undefined beyond the end of the array; i counts from 1
At(array, i) == IF i \in DOMAIN array THEN array[i] ELSE null

\* a ?? b
Coalesce(a, b) == IF IsNull(a) THEN b ELSE a

\* stopTitleFromSearchResult: the first field that is not null/undefined
stopTitleFromSearchResult(result) ==
    Unwrap(Coalesce(result.full_address,
           Coalesce(result.place_name,
           Coalesce(result.place_formatted,
           Coalesce(result.name,
           Coalesce(result.text, Some("Selected stop")))))))

\* a sort step that puts the entry before the sorted entries it compares
\* equal to
RECURSIVE InsertByWaypointIndex_BeforeEqual(_, _)
InsertByWaypointIndex_BeforeEqual(entry, sorted) ==
    IF sorted = <<>>
    THEN <<entry>>
    ELSE IF Unwrap(entry.waypointIndex) - Unwrap(Head(sorted).waypointIndex) <= 0
         THEN <<entry>> \o sorted
         ELSE <<Head(sorted)>> \o InsertByWaypointIndex_BeforeEqual(entry, Tail(sorted))

\* One step of Array.prototype.sort under the comparator
\* (left, right) => left.waypointIndex - right.waypointIndex: the entry goes
\* before the first sorted entry it compares below, so equal keys keep their
\* order (the sort is stable).
RECURSIVE InsertByWaypointIndex(_, _)
InsertByWaypointIndex(entry, sorted) ==
    IF sorted = <<>>
    THEN <<entry>>
    ELSE IF Unwrap(entry.waypointIndex) - Unwrap(Head(sorted).waypointIndex) < 0
         THEN <<entry>> \o sorted
         ELSE <<Head(sorted)>> \o InsertByWaypointIndex(entry, Tail(sorted))

RECURSIVE SortByWaypointIndex(_)
SortByWaypointIndex(entries) ==
    IF entries = <<>>
    THEN <<>>
    ELSE InsertByWaypointIndex(entries[Len(entries)],
                               SortByWaypointIndex(SubSeq(entries, 1, Len(entries) - 1)))

\* the lookup waypoints[originalIndex], without the offset
reorderStopsByWaypointIndex_IgnoresOffset(currentStops, waypoints, waypointOffset) ==
    IF IsNull(waypoints) \/ Len(Unwrap(waypoints)) < Len(currentStops) + waypointOffset
    THEN null
    ELSE LET indexedStops ==
                 [originalIndex \in 1..Len(currentStops) |->
                     [waypointIndex |-> At(Unwrap(waypoints), originalIndex),
                      stop |-> currentStops[originalIndex]]]
         IN  IF \E i \in DOMAIN indexedStops : IsNull(indexedStops[i].waypointIndex)
             THEN null
             ELSE LET sortedStops == SortByWaypointIndex(indexedStops)
                  IN  Some([i \in DOMAIN sortedStops |-> sortedStops[i].stop])

\* no check of the array's length, a missing waypoint_index read as 0
reorderStopsByWaypointIndex_MissingAsZero(currentStops, waypoints, waypointOffset) ==
    LET array == IF IsNull(waypoints) THEN <<>> ELSE Unwrap(waypoints)
        indexedStops ==
            [originalIndex \in 1..Len(currentStops) |->
                [waypointIndex |-> Coalesce(At(array, originalIndex + waypointOffset), Some(0)),
                 stop |-> currentStops[originalIndex]]]
        sortedStops == SortByWaypointIndex(indexedStops)
    IN  Some([i \in DOMAIN sortedStops |-> sortedStops[i].stop])

\* no Number.isFinite check, a stop without a finite waypoint_index sorted
\* behind the others
reorderStopsByWaypointIndex_NonFiniteLast(currentStops, waypoints, waypointOffset) ==
    IF IsNull(waypoints) \/ Len(Unwrap(waypoints)) < Len(currentStops) + waypointOffset
    THEN null
    ELSE LET indexedStops ==
                 [originalIndex \in 1..Len(currentStops) |->
                     [waypointIndex |->
                          Coalesce(At(Unwrap(waypoints), originalIndex + waypointOffset),
                                   Some(MaxWaypointIndex + 1)),
                      stop |-> currentStops[originalIndex]]]
             sortedStops == SortByWaypointIndex(indexedStops)
         IN  Some([i \in DOMAIN sortedStops |-> sortedStops[i].stop])

\* the stop at position k of the result picked by its own waypoint_index,
\* currentStops[waypoint_index], with the index clamped to the list
reorderStopsByWaypointIndex_PicksByIndex(currentStops, waypoints, waypointOffset) ==
    IF IsNull(waypoints) \/ Len(Unwrap(waypoints)) < Len(currentStops) + waypointOffset
    THEN null
    ELSE LET indexedStops ==
                 [originalIndex \in 1..Len(currentStops) |->
                     [waypointIndex |-> At(Unwrap(waypoints), originalIndex + waypointOffset),
                      stop |-> currentStops[originalIndex]]]
             Clamped(k) == IF k < 0 THEN 0
                           ELSE IF k > Len(currentStops) - 1 THEN Len(currentStops) - 1
                           ELSE k
         IN  IF \E i \in DOMAIN indexedStops : IsNull(indexedStops[i].waypointIndex)
             THEN null
             ELSE Some([i \in DOMAIN indexedStops |->
                          currentStops[Clamped(Unwrap(indexedStops[i].waypointIndex)) + 1]])

\* reorderStopsByWaypointIndex(currentStops, waypoints, waypointOffset).
\* waypoints is null or Some(array); an array element is the waypoint_index of
\* that entry, Some(k) when it is a finite number and null otherwise
\* (undefined, NaN, an infinity).  The result is null or Some(stops).
reorderStopsByWaypointIndex(currentStops, waypoints, waypointOffset) ==
    IF IsNull(waypoints) \/ Len(Unwrap(waypoints)) < Len(currentStops) + waypointOffset
    THEN null
    ELSE LET indexedStops ==
                 [originalIndex \in 1..Len(currentStops) |->
                     [waypointIndex |-> At(Unwrap(waypoints), originalIndex + waypointOffset),
                      stop |-> currentStops[originalIndex]]]
         IN  IF \E i \in DOMAIN indexedStops : IsNull(indexedStops[i].waypointIndex)
             THEN null
             ELSE LET sortedStops == SortByWaypointIndex(indexedStops)
                  IN  Some([i \in DOMAIN sortedStops |-> sortedStops[i].stop])

(***************************************************************************)
(* State of the Index component.                                           *)
(***************************************************************************)
VARIABLES
    MAPBOX_ACCESS_TOKEN,            \* Some(token), or null for a missing key
    hasLocationPermission,
    userCoordinate,                 \* null or Some(coordinate)
    stops,                          \* sequence of [id, title, coordinate]
    routeCoordinates,
    routeDistanceMeters,            \* null or Some(metres)
    routeDurationSeconds,           \* null or Some(seconds)
    isOptimizing,
    optimizeError,                  \* null or Some(message)
    includeCurrentLocationInRoute,
    isSheetOpen,
    locationTask,                   \* where checkPermission stands
    requests,                       \* optimizeRoute calls awaiting their fetch
    clock,                          \* buildStopId: ids created so far
    searchQuery,                    \* the text of the search field, a sequence of characters
    searchResults,                  \* sequence of GeocodingFeature
    isSearching,
    searchError,                    \* null or Some(message)
    geocodeTasks,                   \* geocoding effects with a pending timer or request
    geocodeLog,                     \* history: the queries a geocoding fetch was issued for
    queryChanges,                   \* history: how often searchQuery changed
    routeOrigin,                    \* history: the request the route came from
    last                            \* history: the latest handler and what it saw

vars ==
    <<MAPBOX_ACCESS_TOKEN, hasLocationPermission, userCoordinate, stops,
      routeCoordinates, routeDistanceMeters, routeDurationSeconds, isOptimizing,
      optimizeError, includeCurrentLocationInRoute, isSheetOpen, locationTask,
      requests, clock, searchQuery, searchResults, isSearching, searchError,
      geocodeTasks, geocodeLog, queryChanges, routeOrigin, last>>

\* const MAPBOX_ACCESS_TOKEN = process.env.EXPO_PUBLIC_MAP_KEY ?? ''
envVars == <<MAPBOX_ACCESS_TOKEN>>

locationVars == <<hasLocationPermission, userCoordinate, locationTask>>

routeVars == <<routeCoordinates, routeDistanceMeters, routeDurationSeconds, routeOrigin>>

searchVars ==
    <<searchQuery, searchResults, isSearching, searchError, geocodeTasks, geocodeLog,
      queryChanges>>

\* the search cells of a component in whose search field nothing was typed
SearchIdle ==
    /\ searchQuery = <<>>
    /\ searchResults = <<>>
    /\ isSearching = FALSE
    /\ searchError = null
    /\ geocodeTasks = <<>>
    /\ geocodeLog = <<>>
    /\ queryChanges = 0

(***************************************************************************)
(* Values the environment supplies.                                        *)
(***************************************************************************)
Tokens == {null, Some("pk.token")}

DevicePosition == <<13, 52>>

\* GeocodingFeature, its optional fields null when absent
SampleFeature ==
    [id |-> "place.1", coordinates |-> <<10, 10>>,
     full_address |-> Some("1 Main St, Berlin"), place_name |-> null,
     place_formatted |-> Some("Berlin"), name |-> Some("1 Main St"),
     text |-> null]

SelectableFeatures == {SampleFeature}

\* history record of the latest handler: its name, the stop list and the
\* presence of a route before it ran, and for a settled request the request
\* and its response
Did(op, request, response) ==
    [op |-> op, stops |-> stops, hadRoute |-> Len(routeCoordinates) > 1,
     request |-> request, response |-> response]

Quiet(op) == [op |-> op, stops |-> <<>>, hadRoute |-> FALSE, request |-> null, response |-> null]

(***************************************************************************)
(* Derived values of a render.                                             *)
(***************************************************************************)
\* const canIncludeCurrentLocationInRoute = hasLocationPermission && Boolean(userCoordinate)
CanInclude(permission, coordinate) == permission /\ ~IsNull(coordinate)

canIncludeCurrentLocationInRoute == CanInclude(hasLocationPermission, userCoordinate)

\* the effect that switches the option off when the location cannot be
\* included; it runs with the commit of the handler that changed its inputs
SwitchOffEffect(include, permission, coordinate) ==
    IF ~CanInclude(permission, coordinate) /\ include THEN FALSE ELSE include

\* the buttons disabled by the number of stops alone
OptimizeDisabled_IgnoresIsOptimizing == Len(stops) < 2

\* disabled={stops.length < 2 || isOptimizing}, on both optimize buttons
OptimizeDisabled == Len(stops) < 2 \/ isOptimizing

\* disabled={!canIncludeCurrentLocationInRoute || isOptimizing}, on the switch
ToggleDisabled == ~canIncludeCurrentLocationInRoute \/ isOptimizing

RoutePresent == Len(routeCoordinates) > 1

\* `${n}` for a whole number n >= 0: its decimal digits
DigitText(n) == <<"0", "1", "2", "3", "4", "5", "6", "7", "8", "9">>[n + 1]

RECURSIVE DecimalText(_)
DecimalText(n) ==
    IF n < 10 THEN <<DigitText(n)>> ELSE DecimalText(n \div 10) \o <<DigitText(n % 10)>>

\* Math.round(numerator / denominator) for whole numbers: the quotient is a
\* double within half an ulp of the fraction, so it is a tie (.5, which a
\* double holds exactly) only when the fraction is, and Math.round takes
\* ties up
MathRoundOfQuotient(numerator, denominator) ==
    (2 * numerator + denominator) \div (2 * denominator)

\* Math.max(1, n)
MathMax1(n) == IF n < 1 THEN 1 ELSE n

RECURSIVE PowerOf2Mod(_, _)
PowerOf2Mod(k, m) == IF k = 0 THEN 1 % m ELSE (2 * PowerOf2Mod(k - 1, m)) % m

\* the least j with x * 2^j >= 1000
RECURSIVE DoublingsTo1000(_)
DoublingsTo1000(x) == IF x >= 1000 THEN 0 ELSE 1 + DoublingsTo1000(2 * x)

\* the least i with x < 2000 * 2^i
RECURSIVE HalvingsTo2000(_)
HalvingsTo2000(x) == IF x < 2000 THEN 0 ELSE 1 + HalvingsTo2000(x \div 2)

\* The double d / 1000 of a whole d > 0 is q / 2^k with q the whole number
\* nearest to d * 2^k / 1000 (ties to even) and k the shift that puts q in
\* 2^52 .. 2^53 - 1.
SignificandShift(d) == 52 + DoublingsTo1000(d) - HalvingsTo2000(d)

\* The sign of (the double d / 1000) - (the fraction d / 1000): -1 when the
\* division rounded down, 1 when it rounded up, 0 when it is exact.  It is
\* read off the remainder of d * 2^k modulo 1000.
QuotientError(d) ==
    LET k == SignificandShift(d)
        remainder == ((d % 1000) * PowerOf2Mod(k, 1000)) % 1000
        floorIsOdd ==
            ((((d % 2000) * PowerOf2Mod(k, 2000)) % 2000) - remainder) \div 1000 = 1
    IN  IF remainder = 0 THEN 0
        ELSE IF remainder < 500 THEN -1
        ELSE IF remainder > 500 THEN 1
        ELSE IF floorIsOdd THEN 1 ELSE -1

\* (d / 1000).toFixed(1) as a number of tenths: the whole n for which n / 10
\* is closest to the double, the larger n when two are equally close
TenthsOfKilometres(d) ==
    IF d % 100 < 50 THEN d \div 100
    ELSE IF d % 100 > 50 THEN d \div 100 + 1
    ELSE IF QuotientError(d) < 0 THEN d \div 100
    ELSE d \div 100 + 1

\* the text of a number of tenths with one decimal digit
TenthsText(n) == DecimalText(n \div 10) \o <<".", DigitText(n % 10)>>

\* const distanceText = ..., a text as the sequence of its digits
distanceText ==
    IF IsNull(routeDistanceMeters)
    THEN <<"--">>
    ELSE TenthsText(TenthsOfKilometres(Unwrap(routeDistanceMeters)))

\* durationText with Math.floor in the place of Math.round
durationText_Floors ==
    IF IsNull(routeDurationSeconds)
    THEN <<"--">>
    ELSE LET totalMinutes == MathMax1(Unwrap(routeDurationSeconds) \div 60)
             hours == totalMinutes \div 60
             remainingMinutes == totalMinutes % 60
         IN  IF totalMinutes < 60
             THEN DecimalText(totalMinutes) \o <<" min">>
             ELSE IF remainingMinutes = 0
             THEN DecimalText(hours) \o <<" hr">>
             ELSE DecimalText(hours) \o <<" hr ">> \o DecimalText(remainingMinutes) \o <<" min">>

\* const durationText = ..., a text as the sequence of its digits and words
durationText ==
    IF IsNull(routeDurationSeconds)
    THEN <<"--">>
    ELSE LET totalMinutes ==
                 MathMax1(MathRoundOfQuotient(Unwrap(routeDurationSeconds), 60))
             hours == totalMinutes \div 60
             remainingMinutes == totalMinutes % 60
         IN  IF totalMinutes < 60
             THEN DecimalText(totalMinutes) \o <<" min">>
             ELSE IF remainingMinutes = 0
             THEN DecimalText(hours) \o <<" hr">>
             ELSE DecimalText(hours) \o <<" hr ">> \o DecimalText(remainingMinutes) \o <<" min">>

RouteAbsent ==
    /\ routeCoordinates = <<>>
    /\ IsNull(routeDistanceMeters)
    /\ IsNull(routeDurationSeconds)

(***************************************************************************)
(* The geocoding effect of searchQuery.  A query is a sequence of          *)
(* characters.  A task is one run of the effect past its early returns:    *)
(* its timer is pending (phase "timer"), its fetch is awaited ("fetch") or *)
(* the body of its response is awaited ("text" when the response is not    *)
(* ok, "json" when it is); aborted is controller.signal.aborted.           *)
(***************************************************************************)
MsgSearchFailed == <<"Search failed. Check network and Mapbox token permissions.">>

IsWhitespace(character) == character = " "

RECURSIVE TrimStart(_)
TrimStart(text) ==
    IF text # <<>> /\ IsWhitespace(Head(text)) THEN TrimStart(Tail(text)) ELSE text

RECURSIVE TrimEnd(_)
TrimEnd(text) ==
    IF text # <<>> /\ IsWhitespace(text[Len(text)])
    THEN TrimEnd(SubSeq(text, 1, Len(text) - 1))
    ELSE text

\* searchQuery.trim()
Trim(text) == TrimEnd(TrimStart(text))

\* the cleanup of the effect: clearTimeout(timeoutId) and controller.abort()
\* the cleanup without clearTimeout(timeoutId): every task stays, its signal
\* aborted
CleanedUp_KeepsTimer(tasks) ==
    [i \in DOMAIN tasks |-> [tasks[i] EXCEPT !.aborted = TRUE]]

CleanedUp(tasks) ==
    LET started == SelectSeq(tasks, LAMBDA task : task.phase # "timer")
    IN  [i \in DOMAIN started |-> [started[i] EXCEPT !.aborted = TRUE]]

\* the effect without its check of the key
GeocodingEffect_IgnoresKey(query) ==
    /\ queryChanges' = queryChanges + 1
    /\ IF Len(Trim(query)) < 3
       THEN /\ searchResults' = <<>>
            /\ isSearching' = FALSE
            /\ searchError' = null
            /\ geocodeTasks' = CleanedUp(geocodeTasks)
       ELSE /\ geocodeTasks' =
                   Append(CleanedUp(geocodeTasks),
                          [id |-> queryChanges + 1, query |-> query,
                           phase |-> "timer", aborted |-> FALSE])
            /\ UNCHANGED <<searchResults, isSearching, searchError>>

\* The commit of a new value of searchQuery: the cleanup of the effect of the
\* value before, then the effect of the new value up to its setTimeout.
GeocodingEffect(query) ==
    /\ queryChanges' = queryChanges + 1
    /\ IF Len(Trim(query)) < 3
       THEN /\ searchResults' = <<>>
            /\ isSearching' = FALSE
            /\ searchError' = null
            /\ geocodeTasks' = CleanedUp(geocodeTasks)
       ELSE IF IsNull(MAPBOX_ACCESS_TOKEN)
       THEN /\ searchResults' = <<>>
            /\ isSearching' = FALSE
            /\ searchError' = Some(MsgMissingKey)
            /\ geocodeTasks' = CleanedUp(geocodeTasks)
       ELSE /\ geocodeTasks' =
                   Append(CleanedUp(geocodeTasks),
                          [id |-> queryChanges + 1, query |-> query,
                           phase |-> "timer", aborted |-> FALSE])
            /\ UNCHANGED <<searchResults, isSearching, searchError>>

(***************************************************************************)
(* Handlers.                                                               *)
(***************************************************************************)
resetOptimizedRoute ==
    /\ routeCoordinates' = <<>>
    /\ routeDistanceMeters' = null
    /\ routeDurationSeconds' = null
    /\ routeOrigin' = null

\* appendStop without its call of resetOptimizedRoute
appendStop_KeepsRoute(stop) ==
    /\ UNCHANGED routeVars
    /\ optimizeError' = null
    /\ stops' = Append(stops, stop)

appendStop(stop) ==
    /\ resetOptimizedRoute
    /\ optimizeError' = null
    /\ stops' = Append(stops, stop)

\* removeStop taking the last stop when no stop has the id
removeStop_AbsentIdDropsLast(stopId) ==
    /\ resetOptimizedRoute
    /\ optimizeError' = null
    /\ stops' = IF \E i \in DOMAIN stops : stops[i].id = stopId
                THEN SelectSeq(stops, LAMBDA stop : stop.id # stopId)
                ELSE SubSeq(stops, 1, Len(stops) - 1)

removeStop(stopId) ==
    /\ resetOptimizedRoute
    /\ optimizeError' = null
    /\ stops' = SelectSeq(stops, LAMBDA stop : stop.id # stopId)

\* onToggleIncludeCurrentLocation without its call of resetOptimizedRoute
onToggleIncludeCurrentLocation_KeepsRoute(nextValue) ==
    /\ includeCurrentLocationInRoute' =
           SwitchOffEffect(nextValue, hasLocationPermission, userCoordinate)
    /\ UNCHANGED routeVars
    /\ optimizeError' = null

onToggleIncludeCurrentLocation(nextValue) ==
    /\ includeCurrentLocationInRoute' =
           SwitchOffEffect(nextValue, hasLocationPermission, userCoordinate)
    /\ resetOptimizedRoute
    /\ optimizeError' = null

\* buildStopId: `${Date.now()}-${Math.random().toString(36).slice(2, 8)}`
\* for a reading of the system clock and a drawn suffix.  Neither part holds
\* a "-" of its own, so two ids are equal exactly when both parts are.
buildStopIdFrom(now, suffix) == <<now, suffix>>

\* buildStopId where every call reads a later time than the calls before it:
\* the id is represented by the number of the call
buildStopId == clock + 1

\* selectSearchResult: a press on a row of the result list, id being the
\* value its call of buildStopId returns
SelectSearchResultWithId(result, id) ==
    /\ appendStop([id |-> id,
                   title |-> stopTitleFromSearchResult(result),
                   coordinate |-> result.coordinates])
    /\ clock' = clock + 1
    /\ isSheetOpen' = TRUE
    /\ searchQuery' = <<>>
    /\ searchResults' = <<>>
    /\ searchError' = null
    /\ IF searchQuery # <<>>
       THEN /\ queryChanges' = queryChanges + 1
            /\ isSearching' = FALSE
            /\ geocodeTasks' = CleanedUp(geocodeTasks)
       ELSE UNCHANGED <<queryChanges, isSearching, geocodeTasks>>
    /\ last' = Did("selectSearchResult", null, null)
    /\ UNCHANGED <<envVars, geocodeLog, locationVars, isOptimizing,
                   includeCurrentLocationInRoute, requests>>

SelectSearchResult(result) == SelectSearchResultWithId(result, buildStopId)

\* a press on the remove icon of the stop at position k of the open sheet
PressRemoveStop(k) ==
    /\ isSheetOpen
    /\ k \in DOMAIN stops
    /\ removeStop(stops[k].id)
    /\ last' = Did("removeStop", null, null)
    /\ UNCHANGED <<envVars, searchVars, locationVars, isOptimizing, includeCurrentLocationInRoute,
                   isSheetOpen, requests, clock>>

\* the user flips the "Start from my location" switch
ToggleIncludeCurrentLocation ==
    /\ ~ToggleDisabled
    /\ onToggleIncludeCurrentLocation(~includeCurrentLocationInRoute)
    /\ last' = Did("onToggleIncludeCurrentLocation", null, null)
    /\ UNCHANGED <<envVars, searchVars, locationVars, stops, isOptimizing, isSheetOpen, requests, clock>>

\* a press on the sheet handle
ToggleSheet ==
    /\ isSheetOpen' = ~isSheetOpen
    /\ last' = Quiet("toggleSheet")
    /\ UNCHANGED <<envVars, searchVars, locationVars, stops, routeVars, isOptimizing, optimizeError,
                   includeCurrentLocationInRoute, requests, clock>>

\* focusSearchForStop: "Add another stop" in the open sheet
FocusSearchForStop ==
    /\ isSheetOpen
    /\ isSheetOpen' = FALSE
    /\ searchResults' = <<>>
    /\ last' = Quiet("focusSearchForStop")
    /\ UNCHANGED <<envVars, searchQuery, isSearching, searchError, geocodeTasks, geocodeLog,
                   queryChanges, locationVars, stops, routeVars, isOptimizing, optimizeError,
                   includeCurrentLocationInRoute, requests, clock>>

\* checkPermission, first await: requestLocationPermission settles
PermissionSettles(granted) ==
    /\ locationTask = "requestPermission"
    /\ hasLocationPermission' = granted
    /\ locationTask' = IF granted THEN "getPosition" ELSE "done"
    /\ includeCurrentLocationInRoute' =
           SwitchOffEffect(includeCurrentLocationInRoute, granted, userCoordinate)
    /\ last' = Quiet("checkPermission")
    /\ UNCHANGED <<envVars, searchVars, userCoordinate, stops, routeVars, isOptimizing, optimizeError,
                   isSheetOpen, requests, clock>>

\* checkPermission, second await: getCurrentPositionAsync settles, with a
\* position or by throwing (position = null)
PositionSettles(position) ==
    /\ locationTask = "getPosition"
    /\ userCoordinate' = IF IsNull(position) THEN userCoordinate ELSE position
    /\ locationTask' = "done"
    /\ includeCurrentLocationInRoute' =
           SwitchOffEffect(includeCurrentLocationInRoute, hasLocationPermission, userCoordinate')
    /\ last' = Quiet("checkPermission")
    /\ UNCHANGED <<envVars, searchVars, hasLocationPermission, stops, routeVars, isOptimizing,
                   optimizeError, isSheetOpen, requests, clock>>

(***************************************************************************)
(* optimizeRoute.                                                          *)
(***************************************************************************)
\* one limit for both settings of the option
MaxStopsFor_IgnoresOption(include) == MaxStopsWithoutCurrentLocation

\* const maxStops = includeCurrentLocationInRoute ? 11 : 12
MaxStopsFor(include) ==
    IF include THEN MaxStopsWithCurrentLocation ELSE MaxStopsWithoutCurrentLocation

\* the check of the key moved to the front
PreconditionError_KeyFirst(stopList, include, coordinate, token) ==
    IF IsNull(token)
    THEN Some(MsgMissingKey)
    ELSE IF Len(stopList) < 2
    THEN Some(MsgAtLeastTwoStops)
    ELSE IF include /\ IsNull(coordinate)
    THEN Some(MsgLocationUnavailable)
    ELSE IF Len(stopList) > MaxStopsFor(include)
    THEN Some(MsgTooManyStops(MaxStopsFor(include)))
    ELSE null

\* The four early returns of optimizeRoute, in the order of the code: the
\* message of the first check that fails, or null when all pass.
PreconditionError(stopList, include, coordinate, token) ==
    IF Len(stopList) < 2
    THEN Some(MsgAtLeastTwoStops)
    ELSE IF include /\ IsNull(coordinate)
    THEN Some(MsgLocationUnavailable)
    ELSE IF Len(stopList) > MaxStopsFor(include)
    THEN Some(MsgTooManyStops(MaxStopsFor(include)))
    ELSE IF IsNull(token)
    THEN Some(MsgMissingKey)
    ELSE null

\* waypointOffset 0 whether or not the user coordinate is sent
BuildRequest_OffsetZero(stopList, include, coordinate) ==
    LET shouldIncludeUserCoordinate == include /\ ~IsNull(coordinate)
        stopCoordinates == [i \in DOMAIN stopList |-> stopList[i].coordinate]
    IN  [currentStops |-> stopList,
         shouldIncludeUserCoordinate |-> shouldIncludeUserCoordinate,
         coordinatesForOptimization |->
             IF shouldIncludeUserCoordinate
             THEN <<Unwrap(coordinate)>> \o stopCoordinates
             ELSE stopCoordinates,
         waypointOffset |-> 0]

\* What the continuation of the fetch keeps from the call: the snapshot
\* [...stops], the offset and the coordinates of the request URL.
BuildRequest(stopList, include, coordinate) ==
    LET shouldIncludeUserCoordinate == include /\ ~IsNull(coordinate)
        stopCoordinates == [i \in DOMAIN stopList |-> stopList[i].coordinate]
    IN  [currentStops |-> stopList,
         shouldIncludeUserCoordinate |-> shouldIncludeUserCoordinate,
         coordinatesForOptimization |->
             IF shouldIncludeUserCoordinate
             THEN <<Unwrap(coordinate)>> \o stopCoordinates
             ELSE stopCoordinates,
         waypointOffset |-> IF shouldIncludeUserCoordinate THEN 1 ELSE 0]

\* optimizeRoute up to its await of fetch
optimizeRoute ==
    LET rejection == PreconditionError(stops, includeCurrentLocationInRoute,
                                       userCoordinate, MAPBOX_ACCESS_TOKEN)
    IN  /\ IF ~IsNull(rejection)
           THEN /\ optimizeError' = rejection
                /\ UNCHANGED <<isOptimizing, requests>>
           ELSE /\ isOptimizing' = TRUE
                /\ optimizeError' = null
                /\ requests' = Append(requests,
                       BuildRequest(stops, includeCurrentLocationInRoute, userCoordinate))
        /\ last' = Did("optimizeRoute", null, null)
        /\ UNCHANGED <<envVars, searchVars, locationVars, stops, routeVars,
                       includeCurrentLocationInRoute, isSheetOpen, clock>>

\* a press on "Find Best Route"
PressFindBestRoute ==
    /\ ~OptimizeDisabled
    /\ optimizeRoute

\* a press on "Optimize Route", a button of the open sheet
PressOptimizeRoute ==
    /\ isSheetOpen
    /\ ~OptimizeDisabled
    /\ optimizeRoute

(***************************************************************************)
(* Responses of the Optimization API.  A response is a rejected fetch      *)
(* (kind "rejected"), a response that is not ok (kind "http") or an ok     *)
(* response with its JSON body (kind "json").                              *)
(***************************************************************************)
NoData == [code |-> null, message |-> null, trips |-> null, waypoints |-> null]

NoThrow == [isError |-> FALSE, message |-> <<>>]

RejectedFetch(isError, message) ==
    [kind |-> "rejected", error |-> [isError |-> isError, message |-> message],
     status |-> 0, details |-> "", data |-> NoData]

HttpFailure(status, details) ==
    [kind |-> "http", error |-> NoThrow, status |-> status, details |-> details,
     data |-> NoData]

JsonBody(code, message, trips, waypoints) ==
    [kind |-> "json", error |-> NoThrow, status |-> 200, details |-> "",
     data |-> [code |-> code, message |-> message, trips |-> trips,
               waypoints |-> waypoints]]

Trip(distance, duration, geometry) ==
    [distance |-> distance, duration |-> duration, geometry |-> geometry]

\* geometry?.coordinates of a trip: null, or Some(points)
LineOfTwo == <<(<<10, 10>>), (<<20, 20>>)>>

LineOfOne == <<(<<10, 10>>)>>

Geometries == {null, Some(<<>>), Some(LineOfOne), Some(LineOfTwo)}

Distances == {null, Some(5000)}

Durations == {null, Some(600)}

Codes == {null, Some(""), Some("Ok"), Some("NoRoute")}

Messages == {null, Some(<<"No route found">>)}

WaypointIndexValues == {null} \cup {Some(k) : k \in 0..MaxWaypointIndex}

\* the waypoints field: absent, or an array of at most len entries
WaypointArrays(len) ==
    {null} \cup {Some(a) : a \in UNION {[1..k -> WaypointIndexValues] : k \in 0..len}}

\* 0-based positions len-1 .. 0, capped at MaxWaypointIndex
ReversedWaypoints(len) ==
    [i \in 1..len |-> Some(IF len - i > MaxWaypointIndex THEN MaxWaypointIndex ELSE len - i)]

\* 0-based positions 0 .. len-1, capped at MaxWaypointIndex
AscendingWaypoints(len) ==
    [i \in 1..len |-> Some(IF i - 1 > MaxWaypointIndex THEN MaxWaypointIndex ELSE i - 1)]

GoodTrip == Trip(Some(5000), Some(600), Some(LineOfTwo))

\* const bestTrip = data.trips?.[0]
BestTrip(data) ==
    IF IsNull(data.trips) \/ Unwrap(data.trips) = <<>>
    THEN null
    ELSE Some(Unwrap(data.trips)[1])

\* const geometryCoordinates = bestTrip?.geometry?.coordinates
GeometryCoordinates(data) ==
    IF IsNull(BestTrip(data)) THEN null ELSE Unwrap(BestTrip(data)).geometry

\* data.code && data.code !== 'Ok'
IsRejectingCode(code) ==
    ~IsNull(code) /\ Unwrap(code) # "" /\ Unwrap(code) # "Ok"

ThrownError(message) == Some([isError |-> TRUE, message |-> message])

\* the geometry check as geometryCoordinates.length < 1
ThrownBy_AcceptsOnePoint(response) ==
    IF response.kind = "rejected"
    THEN Some(response.error)
    ELSE IF response.kind = "http"
    THEN ThrownError(buildMapboxError("Optimization", response.status, response.details))
    ELSE IF IsRejectingCode(response.data.code)
    THEN ThrownError(Unwrap(Coalesce(response.data.message, Some(MsgRequestFailed))))
    ELSE IF \/ IsNull(GeometryCoordinates(response.data))
            \/ Len(Unwrap(GeometryCoordinates(response.data))) < 1
    THEN ThrownError(MsgNoGeometry)
    ELSE null

\* What the try block of optimizeRoute throws for a response: null when it
\* runs to its end, else Some([isError, message]).
ThrownBy(response) ==
    IF response.kind = "rejected"
    THEN Some(response.error)
    ELSE IF response.kind = "http"
    THEN ThrownError(buildMapboxError("Optimization", response.status, response.details))
    ELSE IF IsRejectingCode(response.data.code)
    THEN ThrownError(Unwrap(Coalesce(response.data.message, Some(MsgRequestFailed))))
    ELSE IF \/ IsNull(GeometryCoordinates(response.data))
            \/ Len(Unwrap(GeometryCoordinates(response.data))) < 2
    THEN ThrownError(MsgNoGeometry)
    ELSE null

RemoveAt(seq, i) == SubSeq(seq, 1, i - 1) \o SubSeq(seq, i + 1, Len(seq))

StopIds(stopList) == {stopList[i].id : i \in DOMAIN stopList}

\* the catch block without its call of resetOptimizedRoute
OptimizeSettles_CatchKeepsRoute(i, response) ==
    /\ i \in DOMAIN requests
    /\ LET request == requests[i]
           data == response.data
           thrown == ThrownBy(response)
       IN  IF IsNull(thrown)
           THEN LET reorderedStops ==
                        reorderStopsByWaypointIndex(request.currentStops, data.waypoints,
                                                    request.waypointOffset)
                IN  /\ routeCoordinates' = Unwrap(GeometryCoordinates(data))
                    /\ routeDistanceMeters' = Coalesce(Unwrap(BestTrip(data)).distance, null)
                    /\ routeDurationSeconds' = Coalesce(Unwrap(BestTrip(data)).duration, null)
                    /\ routeOrigin' = Some([stopIds |-> StopIds(request.currentStops),
                                            include |-> request.shouldIncludeUserCoordinate])
                    /\ stops' = IF ~IsNull(reorderedStops) THEN Unwrap(reorderedStops) ELSE stops
                    /\ UNCHANGED optimizeError
           ELSE /\ UNCHANGED routeVars
                /\ optimizeError' = IF Unwrap(thrown).isError
                                    THEN Some(Unwrap(thrown).message)
                                    ELSE Some(MsgNotAnError)
                /\ UNCHANGED stops
    /\ isOptimizing' = FALSE
    /\ requests' = RemoveAt(requests, i)
    /\ last' = Did("optimizeSettles", Some(requests[i]), Some(response))
    /\ UNCHANGED <<envVars, searchVars, locationVars, includeCurrentLocationInRoute, isSheetOpen, clock>>

\* the catch block putting the snapshot of the call back as the stop list
OptimizeSettles_CatchRestoresSnapshot(i, response) ==
    /\ i \in DOMAIN requests
    /\ LET request == requests[i]
           data == response.data
           thrown == ThrownBy(response)
       IN  IF IsNull(thrown)
           THEN LET reorderedStops ==
                        reorderStopsByWaypointIndex(request.currentStops, data.waypoints,
                                                    request.waypointOffset)
                IN  /\ routeCoordinates' = Unwrap(GeometryCoordinates(data))
                    /\ routeDistanceMeters' = Coalesce(Unwrap(BestTrip(data)).distance, null)
                    /\ routeDurationSeconds' = Coalesce(Unwrap(BestTrip(data)).duration, null)
                    /\ routeOrigin' = Some([stopIds |-> StopIds(request.currentStops),
                                            include |-> request.shouldIncludeUserCoordinate])
                    /\ stops' = IF ~IsNull(reorderedStops) THEN Unwrap(reorderedStops) ELSE stops
                    /\ UNCHANGED optimizeError
           ELSE /\ resetOptimizedRoute
                /\ optimizeError' = IF Unwrap(thrown).isError
                                    THEN Some(Unwrap(thrown).message)
                                    ELSE Some(MsgNotAnError)
                /\ stops' = request.currentStops
    /\ isOptimizing' = FALSE
    /\ requests' = RemoveAt(requests, i)
    /\ last' = Did("optimizeSettles", Some(requests[i]), Some(response))
    /\ UNCHANGED <<envVars, searchVars, locationVars, includeCurrentLocationInRoute, isSheetOpen, clock>>

\* setIsOptimizing(false) as the last statement of the try block, with no
\* finally block
OptimizeSettles_NoFinally(i, response) ==
    /\ i \in DOMAIN requests
    /\ LET request == requests[i]
           data == response.data
           thrown == ThrownBy(response)
       IN  IF IsNull(thrown)
           THEN LET reorderedStops ==
                        reorderStopsByWaypointIndex(request.currentStops, data.waypoints,
                                                    request.waypointOffset)
                IN  /\ routeCoordinates' = Unwrap(GeometryCoordinates(data))
                    /\ routeDistanceMeters' = Coalesce(Unwrap(BestTrip(data)).distance, null)
                    /\ routeDurationSeconds' = Coalesce(Unwrap(BestTrip(data)).duration, null)
                    /\ routeOrigin' = Some([stopIds |-> StopIds(request.currentStops),
                                            include |-> request.shouldIncludeUserCoordinate])
                    /\ stops' = IF ~IsNull(reorderedStops) THEN Unwrap(reorderedStops) ELSE stops
                    /\ isOptimizing' = FALSE
                    /\ UNCHANGED optimizeError
           ELSE /\ resetOptimizedRoute
                /\ optimizeError' = IF Unwrap(thrown).isError
                                    THEN Some(Unwrap(thrown).message)
                                    ELSE Some(MsgNotAnError)
                /\ UNCHANGED <<stops, isOptimizing>>
    /\ requests' = RemoveAt(requests, i)
    /\ last' = Did("optimizeSettles", Some(requests[i]), Some(response))
    /\ UNCHANGED <<envVars, searchVars, locationVars, includeCurrentLocationInRoute, isSheetOpen, clock>>

\* optimizeRoute from the settling of its fetch to its end: the rest of the
\* try block, the catch block and the finally block
OptimizeSettles(i, response) ==
    /\ i \in DOMAIN requests
    /\ LET request == requests[i]
           data == response.data
           thrown == ThrownBy(response)
       IN  IF IsNull(thrown)
           THEN LET reorderedStops ==
                        reorderStopsByWaypointIndex(request.currentStops, data.waypoints,
                                                    request.waypointOffset)
                IN  /\ routeCoordinates' = Unwrap(GeometryCoordinates(data))
                    /\ routeDistanceMeters' = Coalesce(Unwrap(BestTrip(data)).distance, null)
                    /\ routeDurationSeconds' = Coalesce(Unwrap(BestTrip(data)).duration, null)
                    /\ routeOrigin' = Some([stopIds |-> StopIds(request.currentStops),
                                            include |-> request.shouldIncludeUserCoordinate])
                    /\ stops' = IF ~IsNull(reorderedStops) THEN Unwrap(reorderedStops) ELSE stops
                    /\ UNCHANGED optimizeError
           ELSE /\ resetOptimizedRoute
                /\ optimizeError' = IF Unwrap(thrown).isError
                                    THEN Some(Unwrap(thrown).message)
                                    ELSE Some(MsgNotAnError)
                /\ UNCHANGED stops
    /\ isOptimizing' = FALSE
    /\ requests' = RemoveAt(requests, i)
    /\ last' = Did("optimizeSettles", Some(requests[i]), Some(response))
    /\ UNCHANGED <<envVars, searchVars, locationVars, includeCurrentLocationInRoute, isSheetOpen, clock>>

(***************************************************************************)
(* Spec: the component from its mount, under every order of the user's     *)
(* presses, the location task and the settling of requests.  A request is  *)
(* answered by one of a sample of responses.                               *)
(***************************************************************************)
NetworkError == RejectedFetch(TRUE, <<"Network request failed">>)

SampleWaypoints(len) ==
    {null, Some(ReversedWaypoints(len)), Some(SubSeq(ReversedWaypoints(len), 1, len - 1))}

SampleResponses(request) ==
    LET len == Len(request.currentStops) + request.waypointOffset
    IN  {NetworkError, HttpFailure(401, "")}
        \cup {JsonBody(code, null, trips, waypoints) :
                code \in {null, Some("Ok"), Some("NoRoute")},
                trips \in {null, Some(<<GoodTrip>>),
                           Some(<<Trip(Some(5000), Some(600), Some(LineOfOne))>>)},
                waypoints \in SampleWaypoints(len)}

Init ==
    /\ MAPBOX_ACCESS_TOKEN \in Tokens
    /\ hasLocationPermission = FALSE
    /\ userCoordinate = null
    /\ stops = <<>>
    /\ routeCoordinates = <<>>
    /\ routeDistanceMeters = null
    /\ routeDurationSeconds = null
    /\ isOptimizing = FALSE
    /\ optimizeError = null
    /\ includeCurrentLocationInRoute = FALSE
    /\ isSheetOpen = FALSE
    /\ locationTask = "requestPermission"
    /\ requests = <<>>
    /\ clock = 0
    /\ SearchIdle
    /\ routeOrigin = null
    /\ last = Quiet("mount")

Next ==
    \/ \E result \in SelectableFeatures : clock < MaxIds /\ SelectSearchResult(result)
    \/ \E k \in DOMAIN stops : PressRemoveStop(k)
    \/ ToggleIncludeCurrentLocation
    \/ ToggleSheet
    \/ FocusSearchForStop
    \/ \E granted \in BOOLEAN : PermissionSettles(granted)
    \/ \E position \in {null, Some(DevicePosition)} : PositionSettles(position)
    \/ PressFindBestRoute
    \/ PressOptimizeRoute
    \/ \E i \in DOMAIN requests :
          \E response \in SampleResponses(requests[i]) : OptimizeSettles(i, response)

Spec == Init /\ [][Next]_vars

(***************************************************************************)
(* SpecFlight: optimization attempts one after the other, from every idle  *)
(* state with a known position and up to MaxFlightStops stops in every     *)
(* order, each answered by any response of AllResponses, which holds every *)
(* waypoints array of up to one entry per coordinate of the request.       *)
(***************************************************************************)
FlightStop(id) ==
    [id |-> id, title |-> stopTitleFromSearchResult(SampleFeature),
     coordinate |-> <<10 * id, 10 * id>>]

\* the stop lists of at most n stops with ids 1..n, in every order
StopLists(n) ==
    {[i \in DOMAIN ids |-> FlightStop(ids[i])] :
        ids \in {s \in UNION {[1..k -> 1..n] : k \in 0..n} :
                    \A i, j \in DOMAIN s : i # j => s[i] # s[j]}}

HttpStatuses == {401, 403, 500}

AllTrips ==
    {null, Some(<<>>)}
    \cup {Some(<<Trip(distance, duration, geometry)>>) :
            distance \in Distances, duration \in Durations, geometry \in Geometries}

AllResponses(request) ==
    LET len == Len(request.currentStops) + request.waypointOffset
    IN  {NetworkError, RejectedFetch(FALSE, <<"not an Error">>)}
        \cup {HttpFailure(status, details) :
                status \in HttpStatuses, details \in {"", "Not Authorized"}}
        \cup {JsonBody(code, message, trips, waypoints) :
                code \in Codes, message \in Messages, trips \in AllTrips,
                waypoints \in SampleWaypoints(len)}
        \cup {JsonBody(Some("Ok"), null, Some(<<GoodTrip>>), waypoints) :
                waypoints \in WaypointArrays(len)}

IdleState(stopLists) ==
    /\ hasLocationPermission \in BOOLEAN
    /\ userCoordinate \in {null, Some(DevicePosition)}
    /\ hasLocationPermission \/ IsNull(userCoordinate)
    /\ locationTask = "done"
    /\ stops \in stopLists
    /\ clock = Len(stops)
    /\ routeCoordinates = <<>>
    /\ routeDistanceMeters = null
    /\ routeDurationSeconds = null
    /\ isOptimizing = FALSE
    /\ optimizeError = null
    /\ includeCurrentLocationInRoute \in BOOLEAN
    /\ includeCurrentLocationInRoute => canIncludeCurrentLocationInRoute
    /\ isSheetOpen = (stops # <<>>)
    /\ requests = <<>>
    /\ SearchIdle
    /\ routeOrigin = null
    /\ last = Quiet("idle")

InitFlight ==
    /\ MAPBOX_ACCESS_TOKEN = Some("pk.token")
    /\ IdleState(StopLists(MaxFlightStops))
    /\ hasLocationPermission
    /\ ~IsNull(userCoordinate)

NextFlight ==
    \/ PressFindBestRoute
    \/ PressOptimizeRoute
    \/ \E i \in DOMAIN requests :
          \E response \in AllResponses(requests[i]) : OptimizeSettles(i, response)

SpecFlight == InitFlight /\ [][NextFlight]_vars

(***************************************************************************)
(* SpecLimit: the component after the user selected 10 to MaxLimitStops    *)
(* stops, around the limit of the Optimization API.                        *)
(***************************************************************************)
SelectedStops(n) ==
    [i \in 1..n |-> [id |-> i, title |-> stopTitleFromSearchResult(SampleFeature),
                     coordinate |-> SampleFeature.coordinates]]

LimitResponses(request) ==
    LET len == Len(request.currentStops) + request.waypointOffset
    IN  {NetworkError}
        \cup {JsonBody(Some("Ok"), null, Some(<<GoodTrip>>), waypoints) :
                waypoints \in {null, Some(AscendingWaypoints(len))}}

InitLimit ==
    /\ MAPBOX_ACCESS_TOKEN \in Tokens
    /\ IdleState({SelectedStops(n) : n \in (MaxStopsWithCurrentLocation - 1)..MaxLimitStops})

NextLimit ==
    \/ \E result \in SelectableFeatures :
          clock < MaxLimitStops /\ SelectSearchResult(result)
    \/ ToggleIncludeCurrentLocation
    \/ PressFindBestRoute
    \/ PressOptimizeRoute
    \/ \E i \in DOMAIN requests :
          \E response \in LimitResponses(requests[i]) : OptimizeSettles(i, response)

SpecLimit == InitLimit /\ [][NextLimit]_vars

(***************************************************************************)
(* SpecCall: optimizeRoute as a function, called on every combination of   *)
(* the values it closes over, whether or not a button of a render would    *)
(* have made the call.                                                     *)
(***************************************************************************)
InitCall ==
    /\ MAPBOX_ACCESS_TOKEN \in Tokens
    /\ hasLocationPermission \in BOOLEAN
    /\ userCoordinate \in {null, Some(DevicePosition)}
    /\ locationTask = "done"
    /\ stops \in {SelectedStops(n) : n \in 0..MaxLimitStops}
    /\ clock = Len(stops)
    /\ routeCoordinates = <<>>
    /\ routeDistanceMeters = null
    /\ routeDurationSeconds = null
    /\ isOptimizing = FALSE
    /\ optimizeError = null
    /\ includeCurrentLocationInRoute \in BOOLEAN
    /\ isSheetOpen = TRUE
    /\ requests = <<>>
    /\ SearchIdle
    /\ routeOrigin = null
    /\ last = Quiet("idle")

CallOptimizeRoute ==
    /\ Len(requests) < MaxCalls
    /\ optimizeRoute

NextCall ==
    \/ CallOptimizeRoute
    \/ \E i \in DOMAIN requests :
          \E response \in LimitResponses(requests[i]) : OptimizeSettles(i, response)

SpecCall == InitCall /\ [][NextCall]_vars

(***************************************************************************)
(* SpecRemove: removeStop as a function, called again and again with any   *)
(* id, in the list or not, from every stop list of up to MaxFlightStops    *)
(* stops with or without a route and an error on screen.                   *)
(***************************************************************************)
RemoveIds == 1..(MaxFlightStops + 1)

InitRemove ==
    /\ MAPBOX_ACCESS_TOKEN = Some("pk.token")
    /\ hasLocationPermission = FALSE
    /\ userCoordinate = null
    /\ locationTask = "done"
    /\ stops \in StopLists(MaxFlightStops)
    /\ clock = Len(stops)
    /\ \/ /\ routeCoordinates = <<>>
          /\ routeDistanceMeters = null
          /\ routeDurationSeconds = null
          /\ routeOrigin = null
       \/ /\ routeCoordinates = LineOfTwo
          /\ routeDistanceMeters = Some(5000)
          /\ routeDurationSeconds = Some(600)
          /\ routeOrigin = Some([stopIds |-> StopIds(stops), include |-> FALSE])
    /\ isOptimizing = FALSE
    /\ optimizeError \in {null, Some(MsgNoGeometry)}
    /\ includeCurrentLocationInRoute = FALSE
    /\ isSheetOpen = TRUE
    /\ requests = <<>>
    /\ SearchIdle
    /\ last = Quiet("idle")

\* a call removeStop(stopId); the history keeps the id as the request
CallRemoveStop(stopId) ==
    /\ removeStop(stopId)
    /\ last' = Did("callRemoveStop", Some(stopId), null)
    /\ UNCHANGED <<envVars, searchVars, locationVars, isOptimizing, includeCurrentLocationInRoute,
                   isSheetOpen, requests, clock>>

NextRemove == \E stopId \in RemoveIds : CallRemoveStop(stopId)

SpecRemove == InitRemove /\ [][NextRemove]_vars

(***************************************************************************)
(* SpecSearch: the search field.  The user replaces the query by any of    *)
(* SampleQueries up to MaxQueryChanges times, timers fire, requests and    *)
(* the bodies of their responses settle in any order, and the user picks   *)
(* a result or dismisses the list.                                         *)
(***************************************************************************)
\* '', 'ab', ' ab ', 'a b', 'abc', 'abcd'
SampleQueries ==
    {<<>>, <<"a", "b">>, <<" ", "a", "b", " ">>, <<"a", " ", "b">>,
     <<"a", "b", "c">>, <<"a", "b", "c", "d">>}

\* a feature of the response to a query
GeocodedFeature(query) == [SampleFeature EXCEPT !.place_name = Some(query)]

\* onChangeText={setSearchQuery}, and the commit of the new query
TypeQuery(query) ==
    /\ queryChanges < MaxQueryChanges
    /\ query # searchQuery
    /\ searchQuery' = query
    /\ GeocodingEffect(query)
    /\ last' = Did("setSearchQuery", null, null)
    /\ UNCHANGED <<envVars, locationVars, stops, routeVars, isOptimizing, optimizeError,
                   includeCurrentLocationInRoute, isSheetOpen, requests, clock, geocodeLog>>

\* the callback of setTimeout(..., 300) up to its await of fetch
GeocodeTimerFires(i) ==
    /\ i \in DOMAIN geocodeTasks
    /\ geocodeTasks[i].phase = "timer"
    /\ isSearching' = TRUE
    /\ searchError' = null
    /\ geocodeTasks' = [geocodeTasks EXCEPT ![i].phase = "fetch"]
    /\ geocodeLog' = Append(geocodeLog, geocodeTasks[i].query)
    /\ last' = Did("geocodeTimer", Some(geocodeTasks[i]), null)
    /\ UNCHANGED <<envVars, locationVars, stops, routeVars, isOptimizing, optimizeError,
                   includeCurrentLocationInRoute, isSheetOpen, requests, clock,
                   searchQuery, searchResults, queryChanges>>

\* how the fetch of a task can settle: an aborted fetch rejects with an
\* AbortError; another one rejects, or resolves with a response ok or not
FetchOutcomes(task) ==
    IF task.aborted THEN {"abort"} ELSE {"networkError", "notOk", "ok"}

\* how the body of a response can settle: response.text() resolves;
\* response.json() resolves with or without features or rejects; after an
\* abort either of them may also reject with an AbortError
BodyOutcomes(task) ==
    (IF task.phase = "text" THEN {"text"} ELSE {"features", "noFeatures", "parseError"})
    \cup (IF task.aborted THEN {"abort"} ELSE {})

\* catch (error) { if AbortError return; ... } finally { setIsSearching(false) }
GeocodeCatch(outcome) ==
    /\ IF outcome = "abort"
       THEN UNCHANGED <<searchResults, searchError>>
       ELSE /\ searchResults' = <<>>
            /\ searchError' = Some(MsgSearchFailed)
    /\ isSearching' = FALSE

\* the await of fetch settles
GeocodeFetchSettles(i, outcome) ==
    /\ i \in DOMAIN geocodeTasks
    /\ geocodeTasks[i].phase = "fetch"
    /\ outcome \in FetchOutcomes(geocodeTasks[i])
    /\ IF outcome \in {"abort", "networkError"}
       THEN /\ GeocodeCatch(outcome)
            /\ geocodeTasks' = RemoveAt(geocodeTasks, i)
       ELSE /\ geocodeTasks' =
                   [geocodeTasks EXCEPT ![i].phase = IF outcome = "ok" THEN "json" ELSE "text"]
            /\ UNCHANGED <<searchResults, searchError, isSearching>>
    /\ last' = Did("geocodeFetchSettles", Some(geocodeTasks[i]), Some(outcome))
    /\ UNCHANGED <<envVars, locationVars, stops, routeVars, isOptimizing, optimizeError,
                   includeCurrentLocationInRoute, isSheetOpen, requests, clock,
                   searchQuery, geocodeLog, queryChanges>>

\* the await of response.text() or response.json() settles, and the callback
\* runs to its end
GeocodeBodySettles(i, outcome) ==
    /\ i \in DOMAIN geocodeTasks
    /\ geocodeTasks[i].phase \in {"text", "json"}
    /\ outcome \in BodyOutcomes(geocodeTasks[i])
    /\ IF outcome \in {"features", "noFeatures"}
       THEN /\ searchResults' = IF outcome = "features"
                                THEN <<GeocodedFeature(geocodeTasks[i].query)>>
                                ELSE <<>>
            /\ isSearching' = FALSE
            /\ UNCHANGED searchError
       ELSE GeocodeCatch(outcome)
    /\ geocodeTasks' = RemoveAt(geocodeTasks, i)
    /\ last' = Did("geocodeBodySettles", Some(geocodeTasks[i]), Some(outcome))
    /\ UNCHANGED <<envVars, locationVars, stops, routeVars, isOptimizing, optimizeError,
                   includeCurrentLocationInRoute, isSheetOpen, requests, clock,
                   searchQuery, geocodeLog, queryChanges>>

\* a press on the map: onPress={() => setSearchResults([])}
PressMap ==
    /\ searchResults' = <<>>
    /\ last' = Did("pressMap", null, null)
    /\ UNCHANGED <<envVars, locationVars, stops, routeVars, isOptimizing, optimizeError,
                   includeCurrentLocationInRoute, isSheetOpen, requests, clock,
                   searchQuery, isSearching, searchError, geocodeTasks, geocodeLog,
                   queryChanges>>

\* a press on a row of the result list on screen
PressSearchResult(k) ==
    /\ k \in DOMAIN searchResults
    /\ clock < MaxIds
    /\ SelectSearchResult(searchResults[k])

InitSearch ==
    /\ MAPBOX_ACCESS_TOKEN \in Tokens
    /\ hasLocationPermission = FALSE
    /\ userCoordinate = null
    /\ locationTask = "done"
    /\ stops = <<>>
    /\ routeCoordinates = <<>>
    /\ routeDistanceMeters = null
    /\ routeDurationSeconds = null
    /\ isOptimizing = FALSE
    /\ optimizeError = null
    /\ includeCurrentLocationInRoute = FALSE
    /\ isSheetOpen = FALSE
    /\ requests = <<>>
    /\ clock = 0
    /\ SearchIdle
    /\ routeOrigin = null
    /\ last = Quiet("mount")

NextSearch ==
    \/ \E query \in SampleQueries : TypeQuery(query)
    \/ \E i \in DOMAIN geocodeTasks : GeocodeTimerFires(i)
    \/ \E i \in DOMAIN geocodeTasks :
          \E outcome \in FetchOutcomes(geocodeTasks[i]) : GeocodeFetchSettles(i, outcome)
    \/ \E i \in DOMAIN geocodeTasks :
          \E outcome \in BodyOutcomes(geocodeTasks[i]) : GeocodeBodySettles(i, outcome)
    \/ PressMap
    \/ \E k \in DOMAIN searchResults : PressSearchResult(k)

SpecSearch == InitSearch /\ [][NextSearch]_vars

(***************************************************************************)
(* SpecKey: the two clients of the Mapbox key with the key missing: the    *)
(* search field, and optimizeRoute called as a function on a list of up to *)
(* MaxIds stops (with the key missing no search returns a result, so no    *)
(* stop can be selected and no button calls optimizeRoute).  No timer and  *)
(* no request exists in any state, so the steps of timers and responses    *)
(* have nothing to act on.                                                 *)
(***************************************************************************)
InitKey ==
    /\ MAPBOX_ACCESS_TOKEN = null
    /\ hasLocationPermission = FALSE
    /\ userCoordinate = null
    /\ locationTask = "done"
    /\ stops \in {SelectedStops(n) : n \in 0..MaxIds}
    /\ clock = Len(stops)
    /\ routeCoordinates = <<>>
    /\ routeDistanceMeters = null
    /\ routeDurationSeconds = null
    /\ isOptimizing = FALSE
    /\ optimizeError = null
    /\ includeCurrentLocationInRoute = FALSE
    /\ isSheetOpen = (stops # <<>>)
    /\ requests = <<>>
    /\ SearchIdle
    /\ routeOrigin = null
    /\ last = Quiet("mount")

NextKey ==
    \/ \E query \in SampleQueries : TypeQuery(query)
    \/ CallOptimizeRoute

SpecKey == InitKey /\ [][NextKey]_vars

(***************************************************************************)
(* SpecFormat: the summary texts of a route.  A request for two stops is   *)
(* in flight and is answered by a trip with any whole duration up to       *)
(* MaxDurationSeconds or any whole distance up to MaxDistanceMeters, or    *)
(* with neither.                                                           *)
(***************************************************************************)
\* an accepted response with a trip of the distance and duration given
FormatResponse(distance, duration) ==
    JsonBody(Some("Ok"), null, Some(<<Trip(distance, duration, Some(LineOfTwo))>>), null)

InitFormat ==
    /\ MAPBOX_ACCESS_TOKEN = Some("pk.token")
    /\ hasLocationPermission = FALSE
    /\ userCoordinate = null
    /\ locationTask = "done"
    /\ stops = SelectedStops(2)
    /\ clock = Len(stops)
    /\ routeCoordinates = <<>>
    /\ routeDistanceMeters = null
    /\ routeDurationSeconds = null
    /\ isOptimizing = TRUE
    /\ optimizeError = null
    /\ includeCurrentLocationInRoute = FALSE
    /\ isSheetOpen = TRUE
    /\ requests = <<BuildRequest(stops, FALSE, null)>>
    /\ SearchIdle
    /\ routeOrigin = null
    /\ last = Quiet("optimizeRoute")

NextFormat ==
    \E i \in DOMAIN requests :
        \/ \E d \in 0..MaxDurationSeconds :
              OptimizeSettles(i, FormatResponse(null, Some(d)))
        \/ \E d \in 0..MaxDistanceMeters :
              OptimizeSettles(i, FormatResponse(Some(d), null))
        \/ OptimizeSettles(i, FormatResponse(null, null))

SpecFormat == InitFormat /\ [][NextFormat]_vars

(***************************************************************************)
(* Vocabulary of the properties.                                           *)
(***************************************************************************)
Settled == last.op = "optimizeSettles"

LastRequest == Unwrap(last.request)

LastResponse == Unwrap(last.response)

\* an ok response with a JSON body whose code is absent or 'Ok'
Accepted(response) ==
    /\ response.kind = "json"
    /\ response.data.code \in {null, Some("Ok")}

\* an ok response with a JSON body whose code does not reject: absent, empty
\* or 'Ok'
NotRejected(response) ==
    /\ response.kind = "json"
    /\ response.data.code \in {null, Some(""), Some("Ok")}

\* trips[0] carries a geometry of 2 or more points
HasRouteGeometry(response) ==
    /\ ~IsNull(response.data.trips)
    /\ Unwrap(response.data.trips) # <<>>
    /\ ~IsNull(Unwrap(response.data.trips)[1].geometry)
    /\ Len(Unwrap(Unwrap(response.data.trips)[1].geometry)) >= 2

FirstTrip(response) == Unwrap(response.data.trips)[1]

\* entries of the waypoints array the request's coordinates need
NeededWaypoints(request) == Len(request.currentStops) + request.waypointOffset

\* the waypoints array is there, long enough, and all its entries are finite
WellFormedWaypoints(request, response) ==
    /\ ~IsNull(response.data.waypoints)
    /\ Len(Unwrap(response.data.waypoints)) >= NeededWaypoints(request)
    /\ \A i \in DOMAIN Unwrap(response.data.waypoints) :
          ~IsNull(Unwrap(response.data.waypoints)[i])

\* the waypoints array is absent or too short for the request
ShortWaypoints(request, response) ==
    \/ IsNull(response.data.waypoints)
    \/ Len(Unwrap(response.data.waypoints)) < NeededWaypoints(request)

\* waypoints[originalIndex + waypointOffset].waypoint_index of a stop of the
\* request's snapshot
AssignedWaypointIndex(stop, request, response) ==
    LET originalIndex ==
            CHOOSE i \in DOMAIN request.currentStops : request.currentStops[i].id = stop.id
    IN  Unwrap(Unwrap(response.data.waypoints)[originalIndex + request.waypointOffset])

EffectiveCoordinateCount ==
    Len(stops) + (IF includeCurrentLocationInRoute THEN 1 ELSE 0)

(***************************************************************************)
(* C1                                                                      *)
(***************************************************************************)
\* C1: after optimizeRoute handled an accepted response with a route geometry
\* and well-formed waypoints for a snapshot of 2 or more stops, the stop list
\* holds the stops of the snapshot and the waypoint_index assigned to each
\* stop, waypoints[originalIndex + waypointOffset], never decreases along it.
C1_StopsFollowWaypointIndex ==
    ( /\ Settled
      /\ Accepted(LastResponse)
      /\ HasRouteGeometry(LastResponse)
      /\ Len(LastRequest.currentStops) >= 2
      /\ WellFormedWaypoints(LastRequest, LastResponse) )
    => /\ Len(stops) = Len(LastRequest.currentStops)
       /\ StopIds(stops) = StopIds(LastRequest.currentStops)
       /\ \A j, k \in DOMAIN stops :
             j < k => AssignedWaypointIndex(stops[j], LastRequest, LastResponse)
                        <= AssignedWaypointIndex(stops[k], LastRequest, LastResponse)

\* three stops and the current location were sent and the stops came back in
\* another order
C1_Witness ==
    /\ Settled
    /\ Accepted(LastResponse)
    /\ HasRouteGeometry(LastResponse)
    /\ WellFormedWaypoints(LastRequest, LastResponse)
    /\ LastRequest.waypointOffset = 1
    /\ Len(stops) = 3
    /\ stops # last.stops

(***************************************************************************)
(* C2                                                                      *)
(***************************************************************************)
\* C2: right after appendStop (a selected search result) or removeStop the
\* route is absent: routeCoordinates is empty, routeDistanceMeters and
\* routeDurationSeconds are null.
C2_EditClearsRoute ==
    last.op \in {"selectSearchResult", "removeStop"} => RouteAbsent

\* a stop was appended while a route was shown
C2_Witness ==
    /\ last.op = "selectSearchResult"
    /\ last.hadRoute
    /\ Len(stops) = Len(last.stops) + 1

(***************************************************************************)
(* C3                                                                      *)
(***************************************************************************)
\* C3: after a request settled, every stop appended while it was in flight
\* (in the live list before the settling, not in the snapshot) is still in
\* the stop list, and no stop removed while it was in flight (in the
\* snapshot, not in the live list before the settling) is in it.
C3_FlightEditsSurvive ==
    Settled =>
        /\ (StopIds(last.stops) \ StopIds(LastRequest.currentStops)) \subseteq StopIds(stops)
        /\ (StopIds(LastRequest.currentStops) \ StopIds(last.stops)) \cap StopIds(stops) = {}

(***************************************************************************)
(* C4                                                                      *)
(***************************************************************************)
\* C4: at most one optimization request is in flight, and one is in flight
\* exactly while isOptimizing holds, whatever the order of presses on the two
\* optimize buttons and of the settling of requests.
C4_OneRequestInFlight ==
    /\ Len(requests) <= 1
    /\ isOptimizing <=> Len(requests) = 1

\* a request is in flight while both optimize buttons are on screen with
\* enough stops for a press
C4_Witness ==
    /\ Len(requests) = 1
    /\ isSheetOpen
    /\ Len(stops) >= 2

(***************************************************************************)
(* C5                                                                      *)
(***************************************************************************)
\* C5: whenever a route is present, the stop list holds exactly the stops of
\* the snapshot the route was computed from and includeCurrentLocationInRoute
\* has the value it had at that dispatch.
C5_RouteMatchesStops ==
    RoutePresent =>
        /\ ~IsNull(routeOrigin)
        /\ StopIds(stops) = Unwrap(routeOrigin).stopIds
        /\ includeCurrentLocationInRoute = Unwrap(routeOrigin).include

(***************************************************************************)
(* C6                                                                      *)
(***************************************************************************)
\* C6: whenever optimizeError is not null, no route is present.
C6_ErrorMeansNoRoute ==
    ~IsNull(optimizeError) => RouteAbsent

(***************************************************************************)
(* C7                                                                      *)
(***************************************************************************)
\* the conditions of the four checks, on the values optimizeRoute closes over
TooFewStops == Len(stops) < 2

LocationMissing == includeCurrentLocationInRoute /\ IsNull(userCoordinate)

TooManyCoordinates == EffectiveCoordinateCount > 12

KeyMissing == IsNull(MAPBOX_ACCESS_TOKEN)

PreconditionMessages ==
    {MsgAtLeastTwoStops, MsgLocationUnavailable, MsgTooManyStops(11),
     MsgTooManyStops(12), MsgMissingKey}

\* C7: a call of optimizeRoute in which a precondition fails reports the
\* first failing one in the order fewer than 2 stops, current location
\* requested but unavailable, too many stops, missing key; the messages are
\* pairwise distinct; and the call leaves requests (nothing is dispatched),
\* isOptimizing and the stop list as they were.
C7_FirstFailingCheckWins ==
    [][ last'.op = "optimizeRoute" =>
          /\ Cardinality(PreconditionMessages) = 5
          /\ TooFewStops => optimizeError' = Some(MsgAtLeastTwoStops)
          /\ (~TooFewStops /\ LocationMissing) =>
                 optimizeError' = Some(MsgLocationUnavailable)
          /\ (~TooFewStops /\ ~LocationMissing /\ TooManyCoordinates) =>
                 optimizeError' =
                     Some(MsgTooManyStops(IF includeCurrentLocationInRoute THEN 11 ELSE 12))
          /\ (~TooFewStops /\ ~LocationMissing /\ ~TooManyCoordinates /\ KeyMissing) =>
                 optimizeError' = Some(MsgMissingKey)
          /\ (TooFewStops \/ LocationMissing \/ TooManyCoordinates \/ KeyMissing) =>
                 UNCHANGED <<requests, isOptimizing, stops>>
      ]_vars

\* optimizeRoute was called with one stop, the location requested and
\* unavailable and no key, and reported the lack of stops
C7_Witness ==
    /\ last.op = "optimizeRoute"
    /\ TooFewStops
    /\ LocationMissing
    /\ KeyMissing
    /\ optimizeError = Some(MsgAtLeastTwoStops)
    /\ requests = <<>>

(***************************************************************************)
(* C8                                                                      *)
(***************************************************************************)
\* C8: right after a press that calls optimizeRoute, a request is in flight
\* only if the stops, plus 1 for the current location when it is included,
\* are at most 12; with more, no request is in flight, isOptimizing is false
\* and optimizeError is the too-many-stops message of the setting; with at
\* most 12 and a key, the request of the stop list is in flight.
C8_DispatchWithinLimit ==
    last.op = "optimizeRoute" =>
        /\ requests # <<>> => EffectiveCoordinateCount <= 12
        /\ EffectiveCoordinateCount > 12 =>
              /\ requests = <<>>
              /\ ~isOptimizing
              /\ optimizeError =
                    Some(MsgTooManyStops(IF includeCurrentLocationInRoute THEN 11 ELSE 12))
        /\ (EffectiveCoordinateCount <= 12 /\ ~KeyMissing) =>
              /\ Len(requests) = 1
              /\ requests[1].currentStops = stops
              /\ Len(requests[1].coordinatesForOptimization) = EffectiveCoordinateCount

\* 12 stops with the current location included were rejected
C8_Witness ==
    /\ last.op = "optimizeRoute"
    /\ Len(stops) = 12
    /\ includeCurrentLocationInRoute
    /\ requests = <<>>
    /\ optimizeError = Some(MsgTooManyStops(11))

(***************************************************************************)
(* C9                                                                      *)
(***************************************************************************)
\* C9: after an accepted response with a route geometry whose waypoints are
\* absent or fewer than stops.length + waypointOffset, the stop list is the
\* one before the response, the geometry, distance and duration of trips[0]
\* are the route, and optimizeError is null.
C9_ShortWaypointsKeepOrder ==
    ( /\ Settled
      /\ Accepted(LastResponse)
      /\ HasRouteGeometry(LastResponse)
      /\ ShortWaypoints(LastRequest, LastResponse) )
    => /\ stops = last.stops
       /\ routeCoordinates = Unwrap(FirstTrip(LastResponse).geometry)
       /\ routeDistanceMeters = FirstTrip(LastResponse).distance
       /\ routeDurationSeconds = FirstTrip(LastResponse).duration
       /\ IsNull(optimizeError)

\* the waypoints array was one entry short, with finite entries that would
\* have reordered the stops
C9_Witness ==
    /\ Settled
    /\ Accepted(LastResponse)
    /\ HasRouteGeometry(LastResponse)
    /\ ~IsNull(LastResponse.data.waypoints)
    /\ Len(Unwrap(LastResponse.data.waypoints)) = NeededWaypoints(LastRequest) - 1
    /\ Unwrap(LastResponse.data.waypoints)[1] = Some(1)
    /\ RoutePresent
    /\ Len(stops) >= 2

(***************************************************************************)
(* C10                                                                     *)
(***************************************************************************)
\* C10: after a response whose code does not reject and which has no trips,
\* no geometry or a geometry of fewer than 2 points, the route is absent, the
\* stop list is the one before the response, and optimizeError is the
\* no-geometry message.
C10_NoGeometryFails ==
    ( /\ Settled
      /\ NotRejected(LastResponse)
      /\ ~HasRouteGeometry(LastResponse) )
    => /\ RouteAbsent
       /\ stops = last.stops
       /\ optimizeError = Some(MsgNoGeometry)

\* a route was shown, and the response had a geometry of one point and
\* well-formed waypoints in another order than the stops
C10_Witness ==
    /\ Settled
    /\ Accepted(LastResponse)
    /\ ~IsNull(LastResponse.data.trips)
    /\ Unwrap(LastResponse.data.trips) # <<>>
    /\ FirstTrip(LastResponse).geometry = Some(LineOfOne)
    /\ WellFormedWaypoints(LastRequest, LastResponse)
    /\ Unwrap(LastResponse.data.waypoints)[1] # Some(0)
    /\ last.hadRoute
    /\ RouteAbsent

(***************************************************************************)
(* C11                                                                     *)
(***************************************************************************)
\* the response carries a code that rejects: present, not empty, not 'Ok'
RejectedByCode(response) ==
    /\ response.kind = "json"
    /\ response.data.code \notin {null, Some(""), Some("Ok")}

\* the ways a dispatched attempt fails: the fetch rejects, the status is not
\* 2xx, the code rejects, or the geometry is missing or too short
AttemptFailed(response) ==
    \/ response.kind = "rejected"
    \/ response.kind = "http"
    \/ RejectedByCode(response)
    \/ (NotRejected(response) /\ ~HasRouteGeometry(response))

\* the message a failed attempt shows
FailureMessage(response) ==
    CASE response.kind = "rejected" /\ response.error.isError -> response.error.message
      [] response.kind = "rejected" /\ ~response.error.isError -> MsgNotAnError
      [] response.kind = "http" ->
             buildMapboxError("Optimization", response.status, response.details)
      [] RejectedByCode(response) /\ ~IsNull(response.data.message) ->
             Unwrap(response.data.message)
      [] RejectedByCode(response) /\ IsNull(response.data.message) -> MsgRequestFailed
      [] OTHER -> MsgNoGeometry

\* C11: after a dispatched attempt failed (rejected fetch, status not 2xx,
\* rejecting code, missing or too-short geometry) the route is absent,
\* whatever it was before the attempt, and optimizeError is the message of
\* the failure.
C11_FailureClearsRoute ==
    (Settled /\ AttemptFailed(LastResponse))
    => /\ RouteAbsent
       /\ optimizeError = Some(FailureMessage(LastResponse))

\* a route was shown when the attempt failed with status 403
C11_Witness ==
    /\ Settled
    /\ LastResponse.kind = "http"
    /\ LastResponse.status = 403
    /\ last.hadRoute
    /\ RouteAbsent
    /\ ~IsNull(optimizeError)

(***************************************************************************)
(* C12                                                                     *)
(***************************************************************************)
\* the latest handler was a call of optimizeRoute that a precondition rejected
RejectedLocally == last.op = "optimizeRoute" /\ ~IsNull(optimizeError)

\* C12: after an attempt that failed, by a precondition or after dispatch,
\* the stop list is the live list of just before the failure was handled,
\* stop for stop and in the same order.
C12_FailureKeepsStops ==
    (RejectedLocally \/ (Settled /\ AttemptFailed(LastResponse)))
    => stops = last.stops

\* the attempt failed after a stop was appended during its flight
C12_Witness ==
    /\ Settled
    /\ AttemptFailed(LastResponse)
    /\ Len(last.stops) = Len(LastRequest.currentStops) + 1
    /\ stops = last.stops

(***************************************************************************)
(* C13                                                                     *)
(***************************************************************************)
\* C13: a call removeStop(id) that follows a call removeStop(id) with the
\* same id leaves the stop list, the route and optimizeError as the first
\* call left them; and a call with an id that no stop has leaves the stop
\* list as it was and optimizeError null.
C13_RemoveStopIdempotent ==
    [][ /\ ( /\ last.op = "callRemoveStop"
             /\ last'.op = "callRemoveStop"
             /\ last'.request = last.request )
           => /\ stops' = stops
              /\ routeCoordinates' = routeCoordinates
              /\ routeDistanceMeters' = routeDistanceMeters
              /\ routeDurationSeconds' = routeDurationSeconds
              /\ optimizeError' = optimizeError
        /\ ( /\ last'.op = "callRemoveStop"
             /\ Unwrap(last'.request) \notin StopIds(stops) )
           => /\ stops' = stops
              /\ optimizeError' = null
      ]_vars

\* removeStop was called with an id that no stop of a list of two had, while
\* a route was shown
C13_Witness ==
    /\ last.op = "callRemoveStop"
    /\ Unwrap(last.request) \notin StopIds(last.stops)
    /\ Len(last.stops) = 2
    /\ last.hadRoute
    /\ stops = last.stops
    /\ RouteAbsent

(***************************************************************************)
(* C14                                                                     *)
(***************************************************************************)
\* C14: every step that changes includeCurrentLocationInRoute leaves the
\* route absent.  The option is on only while the current location can be
\* included, so each change is a flip of the switch by the user: the
\* automatic switch-off has no state to act on.
C14_OptionChangeClearsRoute ==
    /\ [](includeCurrentLocationInRoute => canIncludeCurrentLocationInRoute)
    /\ [][ includeCurrentLocationInRoute' # includeCurrentLocationInRoute =>
             /\ RouteAbsent'
             /\ last'.op = "onToggleIncludeCurrentLocation"
         ]_vars

\* the switch was flipped to on while a route was shown
C14_Witness ==
    /\ last.op = "onToggleIncludeCurrentLocation"
    /\ last.hadRoute
    /\ includeCurrentLocationInRoute
    /\ RouteAbsent

(***************************************************************************)
(* C15                                                                     *)
(***************************************************************************)
\* the step handles the settling, by fetch or by body, of a geocoding
\* request whose query has been replaced since
OlderRequestSettles ==
    /\ last'.op \in {"geocodeFetchSettles", "geocodeBodySettles"}
    /\ Unwrap(last'.request).id < queryChanges

\* C15: a step in which the request of a query that has been replaced by a
\* newer one settles, by success or by error, changes none of
\* searchResults, searchError and isSearching.
C15_LastQueryWins ==
    [][OlderRequestSettles => UNCHANGED <<searchResults, searchError, isSearching>>]_vars

(***************************************************************************)
(* C16                                                                     *)
(***************************************************************************)
\* the number of characters of a query that are not whitespace
NonWhitespaceCount(text) ==
    Len(SelectSeq(text, LAMBDA character : ~IsWhitespace(character)))

\* C16: no geocoding request is ever issued for a query with fewer than 3
\* non-whitespace characters, and while the query of the search field is
\* such a query searchResults is empty, isSearching is false and
\* searchError is null.
C16_ShortQueryNoRequest ==
    /\ \A i \in DOMAIN geocodeLog : NonWhitespaceCount(geocodeLog[i]) >= 3
    /\ NonWhitespaceCount(searchQuery) < 3 =>
          /\ searchResults = <<>>
          /\ isSearching = FALSE
          /\ searchError = null

(***************************************************************************)
(* C17                                                                     *)
(***************************************************************************)
\* C17: with the key missing, no geocoding request and no optimization
\* request is ever issued; while the query of the search field has 3 or
\* more non-whitespace characters searchResults is empty and searchError is
\* the missing-key message; and a call of optimizeRoute leaves isOptimizing
\* false and an error on screen.
C17_MissingKeyNoRequest ==
    KeyMissing =>
        /\ geocodeLog = <<>>
        /\ geocodeTasks = <<>>
        /\ requests = <<>>
        /\ ~isOptimizing
        /\ NonWhitespaceCount(searchQuery) >= 3 =>
              /\ searchResults = <<>>
              /\ isSearching = FALSE
              /\ searchError = Some(MsgMissingKey)
        /\ last.op = "optimizeRoute" => ~IsNull(optimizeError)

\* with the key missing, 'abcd' was typed, and then optimizeRoute was called
\* on two stops and reported the missing key
C17_Witness ==
    /\ KeyMissing
    /\ searchQuery = <<"a", "b", "c", "d">>
    /\ searchError = Some(MsgMissingKey)
    /\ last.op = "optimizeRoute"
    /\ Len(stops) = 2
    /\ optimizeError = Some(MsgMissingKey)
    /\ requests = <<>>

(***************************************************************************)
(* C18                                                                     *)
(***************************************************************************)
\* d / 60 rounded to the nearest whole number, a half rounded up
NearestMinute(d) == CHOOSE r \in 0..(d \div 60 + 1) : 60 * r - 30 <= d /\ d < 60 * r + 30

\* the reference text of m minutes
MinutesText(m) ==
    IF m < 60
    THEN DecimalText(m) \o <<" min">>
    ELSE IF m % 60 = 0
    THEN DecimalText(m \div 60) \o <<" hr">>
    ELSE DecimalText(m \div 60) \o <<" hr ">> \o DecimalText(m % 60) \o <<" min">>

\* C18: for a duration of d whole seconds the duration text is the reference
\* text of m = max(1, d / 60 rounded to the nearest whole number) minutes:
\* "<m> min" under 60, else "<H> hr" or "<H> hr <M> min"; an absent duration
\* gives "--"; 59 gives "1 min", 3600 "1 hr" and 3660 "1 hr 1 min".
C18_DurationText ==
    /\ IsNull(routeDurationSeconds) => durationText = <<"--">>
    /\ ~IsNull(routeDurationSeconds) =>
          LET d == Unwrap(routeDurationSeconds)
              m == IF NearestMinute(d) < 1 THEN 1 ELSE NearestMinute(d)
          IN  durationText = MinutesText(m)
    /\ routeDurationSeconds = Some(59) => durationText = <<"1", " min">>
    /\ routeDurationSeconds = Some(3600) => durationText = <<"1", " hr">>
    /\ routeDurationSeconds = Some(3660) => durationText = <<"1", " hr ", "1", " min">>

\* a trip of 7290 seconds, 121.5 minutes, is shown as 2 hr 2 min
C18_Witness ==
    /\ Settled
    /\ routeDurationSeconds = Some(7290)
    /\ durationText = <<"2", " hr ", "2", " min">>

(***************************************************************************)
(* C19                                                                     *)
(***************************************************************************)
\* meters / 1000 in tenths, rounded to the nearest tenth, a half away from
\* zero
NearestTenth(meters) == (meters + 50) \div 100

\* C19: for a distance of a whole number of metres the distance text is
\* metres / 1000 with one decimal digit, rounded to the nearest tenth with
\* ties away from zero; 12345 gives "12.3" and 5000 gives "5.0"; an absent
\* distance gives "--".
C19_DistanceText ==
    /\ IsNull(routeDistanceMeters) => distanceText = <<"--">>
    /\ ~IsNull(routeDistanceMeters) =>
          distanceText = TenthsText(NearestTenth(Unwrap(routeDistanceMeters)))
    /\ routeDistanceMeters = Some(12345) => distanceText = <<"1", "2", ".", "3">>
    /\ routeDistanceMeters = Some(5000) => distanceText = <<"5", ".", "0">>

(***************************************************************************)
(* SpecIds: selections, removals and optimizations, with the ids that      *)
(* buildStopId makes of the system clock and of Math.random().  The clock  *)
(* has a resolution of one millisecond and can be set back, so a reading   *)
(* can be one that an earlier call has had; the suffix is a free draw.     *)
(***************************************************************************)
ClockReadings == 1..MaxClockReading

RandomSuffixes == 1..MaxSuffix

InitIds ==
    /\ Init
    /\ ~IsNull(MAPBOX_ACCESS_TOKEN)

SelectAtClockReading(now, suffix) ==
    /\ clock < MaxIds
    /\ \E result \in SelectableFeatures :
          SelectSearchResultWithId(result, buildStopIdFrom(now, suffix))

NextIds ==
    \/ \E now \in ClockReadings, suffix \in RandomSuffixes :
          SelectAtClockReading(now, suffix)
    \/ \E k \in DOMAIN stops : PressRemoveStop(k)
    \/ PressFindBestRoute
    \/ \E i \in DOMAIN requests :
          \E response \in SampleResponses(requests[i]) : OptimizeSettles(i, response)

SpecIds == InitIds /\ [][NextIds]_vars

(***************************************************************************)
(* C20                                                                     *)
(***************************************************************************)
\* C20: in every reachable state the ids of the stops of the stop list are
\* pairwise distinct, whatever selections, removals and reconciliations led
\* to it.
C20_StopIdsDistinct ==
    \A i, j \in DOMAIN stops : i # j => stops[i].id # stops[j].id

(***************************************************************************)
(* C21                                                                     *)
(***************************************************************************)
\* the states of an attempt
Idle == ~isOptimizing /\ requests = <<>>

Requesting == isOptimizing /\ Len(requests) = 1

Succeeded == Idle /\ Settled /\ IsNull(ThrownBy(LastResponse))

Failed == Idle /\ Settled /\ ~IsNull(ThrownBy(LastResponse))

\* C21: an attempt goes from Idle to Requesting by a dispatching call of
\* optimizeRoute and from Requesting to Succeeded or Failed when its
\* response or error arrives.  isOptimizing is true exactly while a
\* dispatched request awaits its response, and every arrival, on the success
\* path and on every failure path, leaves isOptimizing false: with a route
\* and no error after a success, with an error and no route after a failure.
C21_AttemptStateMachine ==
    /\ [](Idle \/ Requesting)
    /\ [](isOptimizing <=> requests # <<>>)
    /\ [][/\ (Idle /\ Requesting') =>
               (last'.op = "optimizeRoute" /\ IsNull(optimizeError'))
          /\ (Requesting /\ Idle') => (Succeeded' \/ Failed')
          /\ Settled' => (Requesting /\ Idle')
          /\ Succeeded' => (RoutePresent' /\ IsNull(optimizeError'))
          /\ Failed' => (RouteAbsent' /\ ~IsNull(optimizeError'))]_vars

\* a second attempt fails on a network error after a first one succeeded
C21_Witness ==
    /\ Failed
    /\ LastResponse = NetworkError
    /\ last.hadRoute
    /\ ~isOptimizing

(***************************************************************************)
(* C22                                                                     *)
(***************************************************************************)
\* the waypoints array is long enough for the request and the entry looked
\* up for at least one stop of the snapshot has no finite waypoint_index
NonFiniteLookup(request, response) ==
    /\ ~ShortWaypoints(request, response)
    /\ \E originalIndex \in DOMAIN request.currentStops :
          IsNull(Unwrap(response.data.waypoints)[originalIndex + request.waypointOffset])

\* C22: after an accepted response with a route geometry and enough
\* waypoints, where the waypoint_index looked up for at least one snapshot
\* stop is undefined, NaN or infinite, the stop list is in the order it had,
\* the geometry, distance and duration of trips[0] are applied and no error
\* is set.
C22_NonFiniteIndexKeepsOrder ==
    ( /\ Settled
      /\ NotRejected(LastResponse)
      /\ HasRouteGeometry(LastResponse)
      /\ NonFiniteLookup(LastRequest, LastResponse) )
    => /\ stops = last.stops
       /\ routeCoordinates = Unwrap(FirstTrip(LastResponse).geometry)
       /\ routeDistanceMeters = FirstTrip(LastResponse).distance
       /\ routeDurationSeconds = FirstTrip(LastResponse).duration
       /\ IsNull(optimizeError)

\* three stops were sent; the entry of the second has no finite index and
\* the finite entries of the first and third would have swapped them
C22_Witness ==
    /\ Settled
    /\ Accepted(LastResponse)
    /\ HasRouteGeometry(LastResponse)
    /\ Len(LastRequest.currentStops) = 3
    /\ NonFiniteLookup(LastRequest, LastResponse)
    /\ LET waypoints == Unwrap(LastResponse.data.waypoints)
           offset == LastRequest.waypointOffset
       IN  /\ waypoints[1 + offset] = Some(2)
           /\ IsNull(waypoints[2 + offset])
           /\ waypoints[3 + offset] = Some(0)
    /\ stops = LastRequest.currentStops
    /\ RoutePresent
    /\ IsNull(optimizeError)

(***************************************************************************)
(* C23                                                                     *)
(***************************************************************************)
\* the offset the claim states for a setting of the option
ClaimedOffset(include) == IF include THEN 1 ELSE 0

\* the request dispatched for the stop list and the option of the state
DispatchedAsClaimed(request) ==
    LET coordinates == request.coordinatesForOptimization
        offset == ClaimedOffset(includeCurrentLocationInRoute)
    IN  /\ request.currentStops = stops
        /\ request.waypointOffset = offset
        /\ Len(coordinates) = Len(stops) + offset
        /\ includeCurrentLocationInRoute => coordinates[1] = Unwrap(userCoordinate)
        /\ \A i \in DOMAIN stops : coordinates[i + offset] = stops[i].coordinate

\* waypoints[i + offset].waypoint_index for the stop at snapshot index i
ClaimedWaypointIndex(stop, request, response) ==
    LET i == CHOOSE k \in DOMAIN request.currentStops : request.currentStops[k] = stop
    IN  Unwrap(Unwrap(response.data.waypoints)[i + ClaimedOffset(includeCurrentLocationInRoute)])

\* C23: with includeCurrentLocation true at dispatch the request has
\* stops.length + 1 coordinates, the user coordinate first and the stops
\* after it in list order, and waypointOffset 1; with it false the request
\* has the stop coordinates alone and offset 0.  When the response is
\* reconciled the stop at snapshot index i is ordered by
\* waypoints[i + offset].waypoint_index, and the stop list has the snapshot's
\* stops and nothing else, so never the current location.
C23_OffsetFollowsOption ==
    /\ \A k \in DOMAIN requests : DispatchedAsClaimed(requests[k])
    /\ ( /\ Settled
         /\ NotRejected(LastResponse)
         /\ HasRouteGeometry(LastResponse)
         /\ WellFormedWaypoints(LastRequest, LastResponse) )
       => /\ Len(stops) = Len(LastRequest.currentStops)
          /\ Range(stops) = Range(LastRequest.currentStops)
          /\ \A j, k \in DOMAIN stops :
                j < k => ClaimedWaypointIndex(stops[j], LastRequest, LastResponse)
                           <= ClaimedWaypointIndex(stops[k], LastRequest, LastResponse)

\* three stops were sent behind the current location; waypoints[0] is 0 and
\* the entries of the stops are 2, 1, 0: the stops come back reversed
C23_Witness ==
    /\ Settled
    /\ includeCurrentLocationInRoute
    /\ Accepted(LastResponse)
    /\ HasRouteGeometry(LastResponse)
    /\ LastRequest.waypointOffset = 1
    /\ Len(LastRequest.coordinatesForOptimization) = 4
    /\ LastResponse.data.waypoints = Some(<<Some(0), Some(2), Some(1), Some(0)>>)
    /\ stops = <<LastRequest.currentStops[3], LastRequest.currentStops[2],
                 LastRequest.currentStops[1]>>

(***************************************************************************)
(* SpecReorder: reorderStopsByWaypointIndex as a function, called once on  *)
(* each of its inputs: a stop list of 0..MaxReorderStops stops, a          *)
(* waypoints array of up to one entry more than the stops, or none, and    *)
(* an offset of 0 or 1.  The waypoint_index of an entry is not finite      *)
(* (null), negative, in range or beyond the range.                         *)
(***************************************************************************)
ReorderIndexValues == {null} \cup {Some(k) : k \in (-1)..(MaxWaypointIndex + 1)}

ReorderWaypoints(n) ==
    {null} \cup {Some(a) : a \in UNION {[1..k -> ReorderIndexValues] : k \in 0..(n + 1)}}

ReorderStops(n) == [i \in 1..n |-> FlightStop(i)]

InitReorder ==
    /\ MAPBOX_ACCESS_TOKEN = Some("pk.token")
    /\ IdleState({ReorderStops(n) : n \in 0..MaxReorderStops})
    /\ ~hasLocationPermission
    /\ ~includeCurrentLocationInRoute

\* a call reorderStopsByWaypointIndex(stops, waypoints, waypointOffset); the
\* history keeps the arguments as the request and the result as the response
CallReorderStops(waypoints, waypointOffset) ==
    /\ last.op = "idle"
    /\ last' = Did("reorderStopsByWaypointIndex",
                   Some([currentStops |-> stops, waypoints |-> waypoints,
                         waypointOffset |-> waypointOffset]),
                   Some(reorderStopsByWaypointIndex(stops, waypoints, waypointOffset)))
    /\ UNCHANGED <<envVars, searchVars, locationVars, stops, routeVars, isOptimizing,
                   optimizeError, includeCurrentLocationInRoute, isSheetOpen, requests,
                   clock>>

NextReorder ==
    /\ last.op = "idle"
    /\ \E waypoints \in ReorderWaypoints(Len(stops)), waypointOffset \in {0, 1} :
          CallReorderStops(waypoints, waypointOffset)

SpecReorder == InitReorder /\ [][NextReorder]_vars

\* the latest step was a call of reorderStopsByWaypointIndex
Reordered == last.op = "reorderStopsByWaypointIndex"

\* the call returned a stop list and not null
ReorderedToList == Reordered /\ ~IsNull(LastResponse)

ReorderResult == Unwrap(LastResponse)

\* the entry of the waypoints array looked up for the stop at originalIndex
LookedUp(originalIndex) ==
    Unwrap(Unwrap(LastRequest.waypoints)[originalIndex + LastRequest.waypointOffset])

\* where the stop of originalIndex stands in the returned list
PositionInResult(originalIndex) ==
    CHOOSE k \in DOMAIN ReorderResult : ReorderResult[k] = LastRequest.currentStops[originalIndex]

(***************************************************************************)
(* C24                                                                     *)
(***************************************************************************)
\* C24: in the list reorderStopsByWaypointIndex returns, two stops with
\* equal waypoint_index values stand in the order they had in the input.
C24_ReorderIsStable ==
    ReorderedToList =>
        \A i, j \in DOMAIN LastRequest.currentStops :
            (i < j /\ LookedUp(i) = LookedUp(j))
            => /\ \E k \in DOMAIN ReorderResult :
                     ReorderResult[k] = LastRequest.currentStops[i]
               /\ \E k \in DOMAIN ReorderResult :
                     ReorderResult[k] = LastRequest.currentStops[j]
               /\ PositionInResult(i) < PositionInResult(j)

\* the first and the third of three stops have index 1, the second has
\* index 0: it moves to the front and the other two keep their order
C24_Witness ==
    /\ ReorderedToList
    /\ Len(LastRequest.currentStops) = 3
    /\ LastRequest.waypointOffset = 0
    /\ LastRequest.waypoints = Some(<<Some(1), Some(0), Some(1)>>)
    /\ ReorderResult = <<LastRequest.currentStops[2], LastRequest.currentStops[1],
                         LastRequest.currentStops[3]>>

(***************************************************************************)
(* C25                                                                     *)
(***************************************************************************)
\* C25: reorderStopsByWaypointIndex returns null or a permutation of its
\* input: a list of the same length in which every input stop stands
\* exactly once, whatever the waypoint_index values are (duplicated,
\* negative, beyond the number of coordinates).
C25_ReorderIsPermutation ==
    ReorderedToList =>
        /\ Len(ReorderResult) = Len(LastRequest.currentStops)
        /\ \A i \in DOMAIN LastRequest.currentStops :
              Cardinality({k \in DOMAIN ReorderResult :
                              ReorderResult[k] = LastRequest.currentStops[i]}) = 1

\* three stops behind the current location, with a duplicated index beyond
\* the range and a negative one
C25_Witness ==
    /\ ReorderedToList
    /\ Len(LastRequest.currentStops) = 3
    /\ LastRequest.waypointOffset = 1
    /\ LastRequest.waypoints =
          Some(<<Some(0), Some(MaxWaypointIndex + 1), Some(-1), Some(MaxWaypointIndex + 1)>>)
    /\ ReorderResult = <<LastRequest.currentStops[2], LastRequest.currentStops[1],
                         LastRequest.currentStops[3]>>

(***************************************************************************)
(* C26                                                                     *)
(***************************************************************************)
\* a 2xx response whose code field is present and is not 'Ok'
CodePresentNotOk(response) ==
    /\ response.kind = "json"
    /\ ~IsNull(response.data.code)
    /\ response.data.code # Some("Ok")

\* C26: after a 2xx response whose code is present and not 'Ok' the route is
\* absent, the stop list is the one before the response and optimizeError is
\* the response's message, or the default text when it has none, also when
\* the response carries trips and waypoints; after a 2xx response with no
\* code and a route geometry the route is set and there is no error.
C26_RejectingCodeFails ==
    /\ (Settled /\ CodePresentNotOk(LastResponse))
       => /\ RouteAbsent
          /\ stops = last.stops
          /\ optimizeError =
                Some(Unwrap(Coalesce(LastResponse.data.message, Some(MsgRequestFailed))))
    /\ ( /\ Settled
         /\ LastResponse.kind = "json"
         /\ IsNull(LastResponse.data.code)
         /\ HasRouteGeometry(LastResponse) )
       => /\ RoutePresent
          /\ IsNull(optimizeError)

(***************************************************************************)
(* SpecTitle: stopTitleFromSearchResult as a function, called once on each *)
(* geocoding candidate whose five title fields are absent, the empty       *)
(* string or a text of their own.  properties absent is full_address and   *)
(* name both absent.                                                       *)
(***************************************************************************)
TitleFieldValues(text) == {null, Some(""), Some(text)}

TitleFeatures ==
    {[SampleFeature EXCEPT !.full_address = full_address, !.place_name = place_name,
                           !.place_formatted = place_formatted, !.name = name,
                           !.text = text] :
        full_address \in TitleFieldValues("1 Main St, Berlin"),
        place_name \in TitleFieldValues("Main St"),
        place_formatted \in TitleFieldValues("Berlin"),
        name \in TitleFieldValues("1 Main St"),
        text \in TitleFieldValues("Main")}

InitTitle ==
    /\ MAPBOX_ACCESS_TOKEN = Some("pk.token")
    /\ IdleState({<<>>})
    /\ ~hasLocationPermission
    /\ ~includeCurrentLocationInRoute

\* a call stopTitleFromSearchResult(result); the history keeps the argument
\* as the request and the title as the response
CallStopTitle(result) ==
    /\ last.op = "idle"
    /\ last' = Did("stopTitleFromSearchResult", Some(result),
                   Some(stopTitleFromSearchResult(result)))
    /\ UNCHANGED <<envVars, searchVars, locationVars, stops, routeVars, isOptimizing,
                   optimizeError, includeCurrentLocationInRoute, isSheetOpen, requests,
                   clock>>

NextTitle ==
    /\ last.op = "idle"
    /\ \E result \in TitleFeatures : CallStopTitle(result)

SpecTitle == InitTitle /\ [][NextTitle]_vars

(***************************************************************************)
(* C27                                                                     *)
(***************************************************************************)
\* the five title fields of a candidate in the order of the claim
TitleFields(result) ==
    <<result.full_address, result.place_name, result.place_formatted, result.name,
      result.text>>

\* the fields that are present and not the empty string
NonEmptyTitleFields(result) ==
    {i \in DOMAIN TitleFields(result) : TitleFields(result)[i] \notin {null, Some("")}}

\* the first non-empty field, or the fallback text when there is none
FirstNonEmptyTitle(result) ==
    IF NonEmptyTitleFields(result) = {}
    THEN "Selected stop"
    ELSE LET first == CHOOSE i \in NonEmptyTitleFields(result) :
                          \A j \in NonEmptyTitleFields(result) : i <= j
         IN  Unwrap(TitleFields(result)[first])

\* C27: the title of a stop made from a geocoding candidate is the first
\* non-empty value of properties.full_address, place_name, place_formatted,
\* properties.name and text, in this order; a field that is present but the
\* empty string is skipped, and the fallback text is the title only when all
\* five are absent or empty.
C27_TitleIsFirstNonEmpty ==
    last.op = "stopTitleFromSearchResult"
    => LastResponse = FirstNonEmptyTitle(LastRequest)

(***************************************************************************)
(* SpecCancel: the search field of SpecSearch with a key, and the teardown *)
(* of the component, which runs the cleanup of the geocoding effect and    *)
(* after which no handler of the component runs.                           *)
(***************************************************************************)
\* the component has not been torn down
Mounted == locationTask # "unmounted"

\* the cleanups of the effects at unmount: isMounted = false, and
\* clearTimeout(timeoutId); controller.abort()
Unmount ==
    /\ locationTask' = "unmounted"
    /\ geocodeTasks' = CleanedUp(geocodeTasks)
    /\ last' = Did("unmount", null, null)
    /\ UNCHANGED <<envVars, hasLocationPermission, userCoordinate, stops, routeVars,
                   isOptimizing, optimizeError, includeCurrentLocationInRoute, isSheetOpen,
                   requests, clock, searchQuery, searchResults, isSearching, searchError,
                   geocodeLog, queryChanges>>

InitCancel ==
    /\ InitSearch
    /\ ~IsNull(MAPBOX_ACCESS_TOKEN)

NextCancel ==
    /\ Mounted
    /\ \/ NextSearch
       \/ Unmount

SpecCancel == InitCancel /\ [][NextCancel]_vars

(***************************************************************************)
(* C28                                                                     *)
(***************************************************************************)
\* the task belongs to the query that is in the search field now
OfCurrentQuery(task) == Mounted /\ task.id = queryChanges

\* C28: a timer is pending only for the query of the search field and only
\* while the component is mounted; the request of every replaced query, and
\* every request after the teardown, is aborted, so at most one request that
\* is not aborted exists; and a request is issued only by the timer of the
\* query that is in the search field at that moment, so a query replaced
\* before its delay has elapsed causes none.
C28_CleanupCancels ==
    /\ [](\A i \in DOMAIN geocodeTasks :
             /\ geocodeTasks[i].phase = "timer" => OfCurrentQuery(geocodeTasks[i])
             /\ ~OfCurrentQuery(geocodeTasks[i]) => geocodeTasks[i].aborted)
    /\ [](Cardinality({i \in DOMAIN geocodeTasks :
                          /\ geocodeTasks[i].phase # "timer"
                          /\ ~geocodeTasks[i].aborted}) <= 1)
    /\ [][geocodeLog' # geocodeLog =>
             /\ last'.op = "geocodeTimer"
             /\ OfCurrentQuery(Unwrap(last'.request))
             /\ ~Unwrap(last'.request).aborted]_vars

\* the request of a replaced query is still in flight, aborted, beside the
\* request of the query that replaced it
C28_Witness ==
    /\ Mounted
    /\ \E i, j \in DOMAIN geocodeTasks :
          /\ geocodeTasks[i].id < geocodeTasks[j].id
          /\ geocodeTasks[i].phase = "fetch"
          /\ geocodeTasks[i].aborted
          /\ geocodeTasks[j].phase = "fetch"
          /\ ~geocodeTasks[j].aborted
          /\ geocodeTasks[j].id = queryChanges

=============================================================================
